---- MODULE Spec2Model ----
(***************************************************************************)
(* POS stream uploader (711usingtransactionsummary.py): the channel        *)
(* readers, the transaction assembler (parser_worker) and the dispatcher   *)
(* (dispatcher_worker) with its token cache and audit store.               *)
(*                                                                         *)
(* Representation:                                                         *)
(*  - money is an integer number of thousandths of a dollar;               *)
(*  - time is an integer number of seconds since 2023-01-01T00:00:00;      *)
(*  - a Python dict is a record whose missing keys hold Absent;            *)
(*  - a currency string is the record of what parsing looks at: whether it *)
(*    starts with "$", whether it has a thousands separator, whether the   *)
(*    rest is a number, and that number;                                   *)
(*  - uuid5 is taken to be collision free, so a guid is its name string.   *)
(***************************************************************************)
EXTENDS Integers, Sequences, FiniteSets, TLC

(* ---------------------------- bounds ----------------------------------- *)
MaxRecords == 4        \* records the readers forward in one run
MaxQueue   == 2        \* records waiting in parser_queue at one time
MaxTicks   == 1        \* clock advances in one run
MaxFails   == 2        \* channel failures in one run

(* ------------------------- configuration ------------------------------- *)
SERIAL_PORTS == {"COM3", "COM4"}
CASH_URL     == "https://data-api-uat.go360iq.com/v1/CashOperations"
TXN_URL      == "https://data-api-uat.go360iq.com/v1/Transactions"
REFUND_URL   == "https://data-api-uat.go360iq.com/v1/Refunds"

Absent == "<absent>"

(* ----------------------------- strings --------------------------------- *)
\* str.lower() on the strings that occur as operation tag or transaction type
Lower(s) ==
    CASE s = "NoSale"   -> "nosale"
      [] s = "PaidOut"  -> "paidout"
      [] s = "CashDrop" -> "cashdrop"
      [] s = "Refund"   -> "refund"
      [] s = "REFUND"   -> "refund"
      [] s = "Sale"     -> "sale"
      [] OTHER          -> s

\* str.upper() on the strings that occur as tender description
Upper(s) ==
    CASE s = "Cash"    -> "CASH"
      [] s = "cash"    -> "CASH"
      [] s = "Visa"    -> "VISA"
      [] s = "Balance" -> "BALANCE"
      [] OTHER         -> s

\* str.upper().strip() on the strings that occur as summary description
UpperStrip(s) ==
    CASE s = "Subtotal"   -> "SUBTOTAL"
      [] s = " Total Due" -> "TOTAL DUE"
      [] s = "TOTAL DUE"  -> "TOTAL DUE"
      [] s = "Change"     -> "CHANGE"
      [] s = "Tax 6%"     -> "TAX 6%"
      [] OTHER            -> s

\* port[-1]
LastChar(port) == IF port = "COM3" THEN "3" ELSE "4"

(* --------------------------- time and guid ----------------------------- *)
UtcOffset == 18000          \* America/New_York, standard time, in seconds
DaySecs   == 86400

IsoTs(t) == [kind |-> "iso", t |-> t]     \* a well-formed ISO timestamp
BadTs    == [kind |-> "bad", t |-> 0]     \* a string fromisoformat rejects
NoTs     == [kind |-> "empty", t |-> 0]   \* a missing key, read as ''

\* datetime.now().strftime(...) on a host that runs in USER_TZ
LocalNow(clock) == IsoTs(clock - UtcOffset)

\* a conversion that stamps every transaction with the current time
to_utc_Now(local_ts, clock) == IsoTs(clock)

to_utc(local_ts, clock) ==
    IF local_ts.kind # "iso" THEN IsoTs(clock)
    ELSE IF local_ts.t < 0 THEN IsoTs(clock)
    ELSE IsoTs(local_ts.t + UtcOffset)

\* a name that leaves the terminal out
generate_guid_NoTerminal(store, terminal, seq, ts_utc) ==
    store \o "-" \o seq \o "-" \o ToString(ts_utc.t)

generate_guid(store, terminal, seq, ts_utc) ==
    store \o "-" \o terminal \o "-" \o seq \o "-" \o ToString(ts_utc.t)

\* f"{tx['seq']}_{tx['guid']}"
FileKey(tx) == tx.seq \o "_" \o tx.guid

(* ------------------------- upstream records ---------------------------- *)
\* a currency string
Money(dollar, comma, ok, v) == [dollar |-> dollar, comma |-> comma, ok |-> ok, v |-> v]
NoMoney == Money(FALSE, FALSE, FALSE, 0)       \* a missing key, read as ''

\* a JSON value used as number: missing, a number, or a string float() rejects
Num(v) == [kind |-> "num", v |-> v]
NoNum  == [kind |-> "none", v |-> 0]
BadNum == [kind |-> "bad", v |-> 0]

\* a JSON value that is missing, one object, or an array of objects
NoList     == [kind |-> "none", v |-> <<>>]
OneObj(e)  == [kind |-> "dict", v |-> <<e>>]
ListOf(es) == [kind |-> "list", v |-> es]

NoMeta == [timeStamp |-> NoTs, terminalId |-> Absent, sequenceNumber |-> Absent,
           storeId |-> Absent, operatorId |-> Absent, operatorName |-> Absent,
           operation |-> Absent, transactionType |-> Absent]

\* a record with none of the recognized keys
NoRec == [CMD |-> Absent, operation |-> Absent, datetime |-> NoTs, timestamp |-> NoTs,
          terminal |-> Absent, sequence |-> Absent, amount |-> NoNum, operator |-> Absent,
          metaData |-> <<>>, cartChangeTrail |-> NoList, paymentSummary |-> NoList,
          transactionSummary |-> NoList]

CartEntry(et, nm, pr, qt) == [eventType |-> et, itemName |-> nm, price |-> pr, quantity |-> qt]
Line(d, m) == [description |-> d, details |-> m]

T1 == 2 * DaySecs + 79200        \* a local time at 22:00, next day in UTC

RecStart     == [NoRec EXCEPT !.CMD = "StartTransaction"]
RecStartOp   == [NoRec EXCEPT !.CMD = "StartTransaction", !.operation = "Refund"]
RecEnd       == [NoRec EXCEPT !.CMD = "EndTransaction"]
RecMeta      == [NoRec EXCEPT !.metaData = << [NoMeta EXCEPT !.timeStamp = IsoTs(T1),
                     !.terminalId = "1", !.sequenceNumber = "42", !.storeId = "1001",
                     !.operatorId = "OP1", !.operatorName = "Ann"] >>]
RecMetaOp    == [NoRec EXCEPT !.metaData = << [NoMeta EXCEPT !.sequenceNumber = "43",
                     !.operation = "NoSale"] >>]
RecMetaRef   == [NoRec EXCEPT !.metaData = << [NoMeta EXCEPT !.sequenceNumber = "A7",
                     !.transactionType = "REFUND"] >>]
RecMetaSeq   == [NoRec EXCEPT !.metaData = << [NoMeta EXCEPT !.sequenceNumber = "A7",
                     !.timeStamp = IsoTs(0 - DaySecs)] >>]
RecCart      == [NoRec EXCEPT !.cartChangeTrail = ListOf(<<
                     CartEntry("addLineItem", "Coffee", Num(2000), Num(1)),
                     CartEntry("voidLineItem", "Tea", Num(1500), NoNum) >>)]
RecCartNeg   == [NoRec EXCEPT !.cartChangeTrail =
                     OneObj(CartEntry("addLineItem", "Return", Num(0 - 3000), Num(1)))]
RecPayCash   == [NoRec EXCEPT !.paymentSummary = ListOf(<<
                     Line("Cash", Money(TRUE, FALSE, TRUE, 5000)),
                     Line("Balance", Money(FALSE, FALSE, TRUE, 0)) >>)]
RecPayVisa   == [NoRec EXCEPT !.paymentSummary =
                     OneObj(Line("Visa", Money(TRUE, FALSE, TRUE, 2000)))]
RecSummary   == [NoRec EXCEPT !.transactionSummary = ListOf(<<
                     Line("Subtotal", Money(TRUE, FALSE, TRUE, 2000)),
                     Line(" Total Due", Money(TRUE, FALSE, TRUE, 2000)) >>)]
RecChange    == [NoRec EXCEPT !.transactionSummary =
                     OneObj(Line("Change", Money(TRUE, FALSE, TRUE, 3000)))]
RecCartBad   == [NoRec EXCEPT !.cartChangeTrail = ListOf(<<
                     CartEntry("addLineItem", "Gum", Num(1000), Num(1)),
                     CartEntry("addLineItem", "Soda", BadNum, Num(2)) >>)]
RecPayComma  == [NoRec EXCEPT !.paymentSummary = ListOf(<<
                     Line("Visa", Money(TRUE, FALSE, TRUE, 1000)),
                     Line("Cash", Money(TRUE, TRUE, TRUE, 1000000)) >>)]
RecSummaryBad == [NoRec EXCEPT !.transactionSummary = ListOf(<<
                     Line("Tax 6%", Money(TRUE, FALSE, TRUE, 500)),
                     Line("Subtotal", Money(TRUE, FALSE, FALSE, 0)),
                     Line("Tax 6%", Money(TRUE, TRUE, TRUE, 1000000)) >>)]
RecPaidOut   == [NoRec EXCEPT !.CMD = "PaidOut", !.amount = Num(50000), !.sequence = "7",
                     !.operator = "OP1"]
RecNoSale    == [NoRec EXCEPT !.CMD = "NoSale", !.datetime = IsoTs(T1), !.terminal = "1",
                     !.sequence = "42"]

\* records that carry several of the keys parser_worker looks for
RecMetaAll   == [RecSummary EXCEPT !.metaData = RecMeta.metaData,
                     !.cartChangeTrail = RecCart.cartChangeTrail,
                     !.paymentSummary = RecPayVisa.paymentSummary]
RecCartAll   == [RecSummary EXCEPT !.cartChangeTrail = RecCart.cartChangeTrail,
                     !.paymentSummary = RecPayVisa.paymentSummary]
RecPayAll    == [RecSummary EXCEPT !.paymentSummary = RecPayVisa.paymentSummary]

\* what the terminals send in one run: one of these repertoires of <<port, record>>
On(port, recs) == {<<port, r>> : r \in recs}

Profiles == {
    On("COM3", {RecStart, RecCart, RecPayCash, RecSummary, RecChange}),
    On("COM3", {RecStart, RecStartOp, RecMetaOp, RecCartNeg, RecSummary}),
    On("COM3", {RecStart, RecMetaRef, RecMetaSeq, RecCart, RecSummary})
        \cup On("COM4", {RecPaidOut}),
    On("COM3", {RecStart, RecMeta, RecPayVisa, RecEnd, RecSummary}) \cup On("COM4", {RecNoSale}),
    On("COM3", {RecStart, RecCart, RecPaidOut, RecSummary}) \cup On("COM4", {RecCart, RecSummary}),
    On("COM3", {RecStart, RecCart, RecSummary}) \cup On("COM4", {RecStart, RecCartNeg, RecSummary}),
    On("COM3", {RecStart, RecCartBad, RecPayComma, RecSummaryBad})
        \cup On("COM4", {RecStart, RecNoSale}),
    On("COM3", {RecStart, [RecPayAll EXCEPT !.CMD = "StartTransaction"],
                RecMetaAll, RecCartAll, RecPayAll}) }

(* ------------------------------ state ---------------------------------- *)
VARIABLES
    profile,        \* the <<port, record>> repertoire of this run's terminals
    nread,          \* records forwarded by the readers so far
    nticks,         \* clock advances so far
    now,            \* time.time() / datetime.now()
    parser_queue,   \* queue of <<port, rec>>
    buffers,        \* port -> <<>> (None) or <<buffer>>
    ppc,            \* parser_worker: "get", "put" (event saved, not yet queued), "dead"
    pending,        \* the transaction parser_worker is emitting, while ppc = "put"
    events,         \* EVENTS_DIR: file name -> snapshot
    tx_queue,       \* queue of transactions
    cyc,            \* history: per port, the last cycle-start record, whether it
                    \* replaced a buffer holding items, the records applied since,
                    \* and where the transactions emitted from them stand in the
                    \* stream of dispatched transactions
    dpc,            \* dispatcher_worker: "get", "dead"
    taken,          \* history: the transactions dispatcher_worker took, in order
    token_data,     \* _token_data
    ntoken,         \* history: client-credentials requests made
    posts,          \* history: the POSTs issued to the data endpoints
    audit,          \* the lines of the sent.log / failed.log files, in order
    archive,        \* the snapshot files under TRANSACTIONS_DIR
    dthreads,       \* dispatcher thread -> where it stands inside one dispatch
                    \* (used when a dispatch is followed step by step)
    readers         \* port -> where read_from_port stands, its channel and its raw
                    \* log (used when the readers are followed step by step)

asmvars  == <<parser_queue, buffers, ppc, pending, events, cyc>>
dispvars == <<dpc, taken, token_data, ntoken, posts, audit, archive, dthreads>>
envvars  == <<profile, nread, nticks, now, readers>>
vars     == <<profile, nread, nticks, now, parser_queue, buffers, ppc, pending, events,
              tx_queue, cyc, dpc, taken, token_data, ntoken, posts, audit, archive,
              dthreads, readers>>

None == << >>
Some(x) == << x >>

EmptyMap == [k \in {} |-> 0]

NewBuffer(rec) ==
    [meta |-> None, items |-> <<>>, voids |-> <<>>, payments |-> <<>>,
     summary_list |-> <<>>, summary_map |-> EmptyMap,
     operation |-> IF rec.operation = Absent THEN "" ELSE rec.operation,
     awaiting_cash_change |-> FALSE]

NoPending == [port |-> "", close |-> FALSE, tx |-> <<>>]

(* ------------------------- parsing of fields --------------------------- *)
\* dict.get(key, default)
Get(v, default) == IF v = Absent THEN default ELSE v

\* float(x) / int(x) raises
NumRaises(n) == n.kind = "bad"

CartRaises(c) == NumRaises(c.price) \/ NumRaises(c.quantity)

\* one entry of cartChangeTrail -> buffer entry
CartItem(c) ==
    [name     |-> Get(c.itemName, ""),
     price    |-> IF c.price.kind = "none" THEN 0 ELSE c.price.v,
     quantity |-> IF c.quantity.kind = "none" THEN 1 ELSE c.quantity.v,
     event    |-> IF c.eventType = "voidLineItem" THEN "void" ELSE "add"]

\* index of the first entry whose conversion raises, Len + 1 when none does
FirstRaising(s, raising) ==
    IF raising = {} THEN Len(s) + 1 ELSE CHOOSE i \in raising : \A j \in raising : i <= j

CartTrailRaises(trail) == \E i \in 1..Len(trail) : CartRaises(trail[i])

\* the entries appended before the loop over cartChangeTrail raises or ends
CartEntries(trail) ==
    LET n == FirstRaising(trail, {i \in 1..Len(trail) : CartRaises(trail[i])}) - 1
    IN [i \in 1..n |-> CartItem(trail[i])]

SelectEvent(s, ev) == SelectSeq(s, LAMBDA e : e.event = ev)

\* p.get('details', '').startswith('$')
IsPayment(p) == p.details.dollar

\* float(p.get('details', '0').replace('$', '')) raises
PaymentRaises(p) == IsPayment(p) /\ (p.details.comma \/ ~p.details.ok)

\* a payment entry that is cash only when its description is spelled CASH
Payment_CaseSensitive(p) ==
    [amount |-> p.details.v, tenderType |-> Get(p.description, ""),
     is_cash |-> Get(p.description, "") = "CASH", change |-> NoNum]

Payment(p) ==
    [amount |-> p.details.v, tenderType |-> Get(p.description, ""),
     is_cash |-> Upper(Get(p.description, "")) = "CASH", change |-> NoNum]

PaymentsRaise(pays) == \E i \in 1..Len(pays) : PaymentRaises(pays[i])

\* the '$' entries converted before the loop over paymentSummary raises or ends
PaymentEntries(pays) ==
    LET n    == FirstRaising(pays, {i \in 1..Len(pays) : PaymentRaises(pays[i])}) - 1
        kept == SelectSeq(SubSeq(pays, 1, n), IsPayment)
    IN [i \in 1..Len(kept) |-> Payment(kept[i])]

\* float(details.replace('$', '').replace(',', '').strip()), 0.0 when it raises
SummaryValue(e) == IF e.details.ok THEN e.details.v ELSE 0

SummaryKey(e) == UpperStrip(Get(e.description, ""))

\* a map in which the first entry of a key wins
BuildSummaryMap_FirstWins(summ) ==
    [k \in {SummaryKey(summ[i]) : i \in 1..Len(summ)} |->
        LET first == CHOOSE i \in 1..Len(summ) :
                         /\ SummaryKey(summ[i]) = k
                         /\ \A j \in 1..(i-1) : SummaryKey(summ[j]) # k
        IN SummaryValue(summ[first])]

\* smap[key] = val for each entry in order: the last entry of a key wins
BuildSummaryMap(summ) ==
    [k \in {SummaryKey(summ[i]) : i \in 1..Len(summ)} |->
        LET last == CHOOSE i \in 1..Len(summ) :
                        /\ SummaryKey(summ[i]) = k
                        /\ \A j \in (i+1)..Len(summ) : SummaryKey(summ[j]) # k
        IN SummaryValue(summ[last])]

(* --------------------------- classification ---------------------------- *)
CashTags == {"nosale", "paidout", "cashdrop"}

\* a refund test that does not look at the item prices
IsRefund_TagsOnly(buf, meta) ==
    \/ Lower(buf.operation) = "refund"
    \/ Lower(Get(meta.transactionType, "")) = "refund"

IsRefund(buf, meta) ==
    \/ \E i \in 1..Len(buf.items) : buf.items[i].price < 0
    \/ Lower(buf.operation) = "refund"
    \/ Lower(Get(meta.transactionType, "")) = "refund"

\* a classification that lets the refund signals win over a cash-operation tag
Classify_RefundFirst(buf, meta) ==
    IF IsRefund(buf, meta) THEN "refund"
    ELSE IF Lower(buf.operation) \in CashTags THEN "cash-operation"
    ELSE "standard-sale"

Classify(buf, meta) ==
    IF Lower(buf.operation) \in CashTags THEN "cash-operation"
    ELSE IF IsRefund(buf, meta) THEN "refund"
    ELSE "standard-sale"

(* ------------------------- emitted transactions ------------------------ *)
\* the transaction a standalone NoSale / PaidOut / CashDrop command builds
CashCommandTx(port, rec, clock) ==
    LET ts_local == IF rec.datetime.kind = "empty" THEN LocalNow(clock) ELSE rec.datetime
        ts_utc   == to_utc(ts_local, clock)
        terminal == Get(rec.terminal, LastChar(port))
        seq      == Get(rec.sequence, "0")
        store    == "1001"
    IN [guid |-> generate_guid(store, terminal, seq, ts_utc), seq |-> seq,
        type |-> "cash-operation", operation |-> Lower(rec.CMD),
        amount |-> IF rec.amount.kind = "none" THEN Num(0) ELSE rec.amount,
        store |-> store, terminal |-> terminal,
        ts_local |-> ts_local, ts_utc |-> ts_utc,
        operator |-> Get(rec.operator, ""),
        employee_id |-> Get(rec.operator, "OP5"),
        employee_name |-> Get(rec.operator, "Operator Five"),
        items |-> <<>>, payments |-> <<>>, summary_map |-> EmptyMap, voids |-> <<>>]

\* the transaction built when a transactionSummary closes the cycle of buf
CloseTx(port, rec, buf, clock) ==
    LET meta     == IF buf.meta = None THEN NoMeta ELSE buf.meta[1]
        ts_get   == IF meta.timeStamp.kind = "empty" THEN rec.timestamp ELSE meta.timeStamp
        ts_local == IF ts_get.kind = "empty" THEN LocalNow(clock) ELSE ts_get
        ts_utc   == to_utc(ts_local, clock)
        terminal == Get(meta.terminalId, LastChar(port))
        seq      == Get(meta.sequenceNumber, "0")
        store    == Get(meta.storeId, "1001")
    IN [guid |-> generate_guid(store, terminal, seq, ts_utc), seq |-> seq,
        type |-> Classify(buf, meta), operation |-> buf.operation,
        amount |-> NoNum,
        store |-> store, terminal |-> terminal,
        ts_local |-> ts_local, ts_utc |-> ts_utc,
        operator |-> Get(meta.operatorId, ""),
        employee_id |-> Get(meta.operatorId, "OP5"),
        employee_name |-> Get(meta.operatorName, "Operator Five"),
        items |-> buf.items, payments |-> buf.payments,
        summary_map |-> buf.summary_map, voids |-> buf.voids]

\* save_tx_event: one file per seq_guid, rewritten when the name exists
save_tx_event(ev, tx) ==
    [k \in DOMAIN ev \cup {FileKey(tx)} |-> IF k = FileKey(tx) THEN tx ELSE ev[k]]

(* ------------------------------ Init ----------------------------------- *)
\* a second dispatcher thread beside the one that is started
DispatcherThreads_Two == {"dispatcher", "dispatcher-2"}

\* threading.Thread(target=dispatcher_worker, daemon=True).start()
DispatcherThreads == {"dispatcher"}

\* a dispatcher thread blocked in tx_queue.get()
IdleThread == [pc |-> "get", tx |-> <<>>, at |-> 0, req |-> 0, token |-> 0]

Now0 == 10 * DaySecs + 3600

NoCycle == [started |-> FALSE, start |-> NoRec, abandoned |-> FALSE, recs |-> <<>>,
            out |-> <<>>]

\* read_from_port before its first serial.Serial(...): no channel object yet, nothing
\* written to pos_transactions_<port>.log; forwarded is the history of its puts
IdleReader ==
    [pc |-> "open", ser |-> "unbound", body |-> None, log |-> <<>>, forwarded |-> <<>>,
     wake |-> 0, fails |-> 0]

Init ==
    /\ profile \in Profiles
    /\ nread = 0
    /\ nticks = 0
    /\ now = Now0
    /\ parser_queue = <<>>
    /\ buffers = [p \in SERIAL_PORTS |-> None]
    /\ ppc = "get"
    /\ pending = NoPending
    /\ events = EmptyMap
    /\ tx_queue = <<>>
    /\ cyc = [p \in SERIAL_PORTS |-> NoCycle]
    /\ dpc = "get"
    /\ taken = <<>>
    /\ token_data = [access_token |-> 0, expires_at |-> 0]
    /\ ntoken = 0
    /\ posts = <<>>
    /\ audit = <<>>
    /\ archive = {}
    /\ dthreads = [d \in DispatcherThreads |-> IdleThread]
    /\ readers = [p \in SERIAL_PORTS |-> IdleReader]

(* ------------------------- clock and readers --------------------------- *)
TickSteps == {40}

Tick ==
    /\ nticks < MaxTicks
    /\ \E d \in TickSteps : now' = now + d
    /\ nticks' = nticks + 1
    /\ UNCHANGED <<profile, nread, readers, asmvars, tx_queue, dispvars>>

\* read_from_port: parser_queue.put((port, rec))
ReaderForward ==
    /\ nread < MaxRecords
    /\ Len(parser_queue) < MaxQueue
    /\ \E m \in profile : parser_queue' = Append(parser_queue, m)
    /\ nread' = nread + 1
    /\ UNCHANGED <<profile, nticks, now, readers, buffers, ppc, pending, events, cyc,
                   tx_queue, dispvars>>

(* --------------------------- parser_worker ----------------------------- *)
CashCommands == {"NoSale", "PaidOut", "CashDrop"}

\* one buffer for the records of every port
HeadPort_Fixed == "COM3"

HeadPort == parser_queue[1][1]
\* the record put last, taken in place of the record put first
HeadRec_Last == parser_queue[Len(parser_queue)][2]

HeadRec  == parser_queue[1][2]

\* a meta test that yields to any other key of the record
MetaTruthy_Alone(rec) ==
    /\ rec.metaData # None /\ rec.metaData[1] # NoMeta
    /\ rec.cartChangeTrail.kind = "none"
    /\ rec.paymentSummary.kind = "none"
    /\ rec.transactionSummary.kind = "none"

\* rec.get('metaData') is truthy: the key is there and the object is not empty
MetaTruthy(rec) == rec.metaData # None /\ rec.metaData[1] # NoMeta

\* the record is one the buffer branches look at
ForBuffer(rec) == rec.CMD \notin CashCommands /\ rec.CMD # "StartTransaction"

ParserReady == ppc = "get" /\ parser_queue # <<>>

\* history of the records applied on a port since its last cycle-start
CycRecord(port, rec) ==
    IF cyc[port].started
    THEN [cyc EXCEPT ![port].recs = Append(@, rec)]
    ELSE cyc

ParserCashCommand ==
    /\ ParserReady
    /\ HeadRec.CMD \in CashCommands
    /\ LET tx == CashCommandTx(HeadPort, HeadRec, now)
       IN /\ events' = save_tx_event(events, tx)
          /\ pending' = [port |-> HeadPort, close |-> FALSE, tx |-> Some(tx)]
    /\ ppc' = "put"
    /\ parser_queue' = Tail(parser_queue)
    /\ cyc' = CycRecord(HeadPort, HeadRec)
    /\ UNCHANGED <<envvars, buffers, tx_queue, dispvars>>

\* a cycle-start that keeps a buffer that is already open
ParserStartTransaction_KeepsOpen ==
    /\ ParserReady
    /\ HeadRec.CMD = "StartTransaction"
    /\ buffers' = IF buffers[HeadPort] = None
                  THEN [buffers EXCEPT ![HeadPort] = Some(NewBuffer(HeadRec))]
                  ELSE buffers
    /\ cyc' = [cyc EXCEPT ![HeadPort] =
                  [started |-> TRUE, start |-> HeadRec, recs |-> <<>>, out |-> <<>>,
                   abandoned |-> buffers[HeadPort] # None
                                 /\ buffers[HeadPort][1].items # <<>>]]
    /\ parser_queue' = Tail(parser_queue)
    /\ UNCHANGED <<envvars, ppc, pending, events, tx_queue, dispvars>>

ParserStartTransaction ==
    /\ ParserReady
    /\ HeadRec.CMD = "StartTransaction"
    /\ buffers' = [buffers EXCEPT ![HeadPort] = Some(NewBuffer(HeadRec))]
    /\ cyc' = [cyc EXCEPT ![HeadPort] =
                  [started |-> TRUE, start |-> HeadRec, recs |-> <<>>, out |-> <<>>,
                   abandoned |-> buffers[HeadPort] # None
                                 /\ buffers[HeadPort][1].items # <<>>]]
    /\ parser_queue' = Tail(parser_queue)
    /\ UNCHANGED <<envvars, ppc, pending, events, tx_queue, dispvars>>

\* a drop branch that opens a buffer for the port instead of returning
ParserDrop_Opens ==
    /\ ParserReady
    /\ ForBuffer(HeadRec)
    /\ buffers[HeadPort] = None
    /\ buffers' = [buffers EXCEPT ![HeadPort] = Some(NewBuffer(NoRec))]
    /\ parser_queue' = Tail(parser_queue)
    /\ cyc' = CycRecord(HeadPort, HeadRec)
    /\ UNCHANGED <<envvars, ppc, pending, events, tx_queue, dispvars>>

\* buf is None
ParserDrop ==
    /\ ParserReady
    /\ ForBuffer(HeadRec)
    /\ buffers[HeadPort] = None
    /\ parser_queue' = Tail(parser_queue)
    /\ cyc' = CycRecord(HeadPort, HeadRec)
    /\ UNCHANGED <<envvars, buffers, ppc, pending, events, tx_queue, dispvars>>

ParserMeta ==
    /\ ParserReady
    /\ ForBuffer(HeadRec)
    /\ buffers[HeadPort] # None
    /\ MetaTruthy(HeadRec)
    /\ LET buf == buffers[HeadPort][1]
           m   == HeadRec.metaData[1]
       IN buffers' = [buffers EXCEPT ![HeadPort] = Some(
              [buf EXCEPT !.meta = Some(m),
                          !.operation = IF m.operation # Absent /\ m.operation # ""
                                        THEN m.operation ELSE @])]
    /\ parser_queue' = Tail(parser_queue)
    /\ cyc' = CycRecord(HeadPort, HeadRec)
    /\ UNCHANGED <<envvars, ppc, pending, events, tx_queue, dispvars>>

ParserCart ==
    /\ ParserReady
    /\ ForBuffer(HeadRec)
    /\ buffers[HeadPort] # None
    /\ ~MetaTruthy(HeadRec)
    /\ HeadRec.cartChangeTrail.kind # "none"
    /\ LET buf     == buffers[HeadPort][1]
           trail   == HeadRec.cartChangeTrail.v
           entries == CartEntries(trail)
       IN /\ buffers' = [buffers EXCEPT ![HeadPort] = Some(
                 [buf EXCEPT !.items = @ \o SelectEvent(entries, "add"),
                             !.voids = @ \o SelectEvent(entries, "void")])]
          /\ ppc' = IF CartTrailRaises(trail) THEN "dead" ELSE "get"
    /\ parser_queue' = Tail(parser_queue)
    /\ cyc' = CycRecord(HeadPort, HeadRec)
    /\ UNCHANGED <<envvars, pending, events, tx_queue, dispvars>>

\* a payment branch that appends to the payments already in the buffer
ParserPayment_Appends ==
    /\ ParserReady
    /\ ForBuffer(HeadRec)
    /\ buffers[HeadPort] # None
    /\ ~MetaTruthy(HeadRec)
    /\ HeadRec.cartChangeTrail.kind = "none"
    /\ HeadRec.paymentSummary.kind # "none"
    /\ LET buf  == buffers[HeadPort][1]
           pays == HeadRec.paymentSummary.v
           acc  == PaymentEntries(pays)
       IN /\ buffers' = [buffers EXCEPT ![HeadPort] = Some(
                 [buf EXCEPT !.payments = @ \o acc,
                             !.awaiting_cash_change =
                                 @ \/ \E i \in 1..Len(acc) : acc[i].is_cash])]
          /\ ppc' = IF PaymentsRaise(pays) THEN "dead" ELSE "get"
    /\ parser_queue' = Tail(parser_queue)
    /\ cyc' = CycRecord(HeadPort, HeadRec)
    /\ UNCHANGED <<envvars, pending, events, tx_queue, dispvars>>

ParserPayment ==
    /\ ParserReady
    /\ ForBuffer(HeadRec)
    /\ buffers[HeadPort] # None
    /\ ~MetaTruthy(HeadRec)
    /\ HeadRec.cartChangeTrail.kind = "none"
    /\ HeadRec.paymentSummary.kind # "none"
    /\ LET buf  == buffers[HeadPort][1]
           pays == HeadRec.paymentSummary.v
           acc  == PaymentEntries(pays)
       IN /\ buffers' = [buffers EXCEPT ![HeadPort] = Some(
                 [buf EXCEPT !.payments = acc,
                             !.awaiting_cash_change =
                                 @ \/ \E i \in 1..Len(acc) : acc[i].is_cash])]
          /\ ppc' = IF PaymentsRaise(pays) THEN "dead" ELSE "get"
    /\ parser_queue' = Tail(parser_queue)
    /\ cyc' = CycRecord(HeadPort, HeadRec)
    /\ UNCHANGED <<envvars, pending, events, tx_queue, dispvars>>

\* the CHANGE entries of a later summary, applied in order to the first cash payment
ApplyChange(payments, summ) ==
    LET cash == {i \in 1..Len(payments) : payments[i].is_cash}
        chg  == {i \in 1..Len(summ) : SummaryKey(summ[i]) = "CHANGE" /\ summ[i].details.ok}
    IN IF cash = {} \/ chg = {} THEN payments
       ELSE LET first == CHOOSE i \in cash : \A j \in cash : i <= j
                last  == CHOOSE i \in chg : \A j \in chg : j <= i
            IN [payments EXCEPT ![first].change = Num(summ[last].details.v)]

\* a summary branch that keeps the list and forgets to build the map
SummaryApplied_NoMap(buf, summ) ==
    IF buf.summary_list = <<>> THEN [buf EXCEPT !.summary_list = summ] ELSE buf

\* the buffer after the summary branch, before the cycle is closed
SummaryApplied(buf, summ) ==
    IF buf.summary_list = <<>>
    THEN [buf EXCEPT !.summary_list = summ, !.summary_map = BuildSummaryMap(summ)]
    ELSE IF buf.awaiting_cash_change
    THEN [buf EXCEPT !.payments = ApplyChange(@, summ), !.awaiting_cash_change = FALSE]
    ELSE buf

\* a summary branch that keeps the cycle open after its first summary while the
\* buffer awaits the change of a cash payment
ParserSummary_WaitsForChange ==
    /\ ParserReady
    /\ ForBuffer(HeadRec)
    /\ buffers[HeadPort] # None
    /\ ~MetaTruthy(HeadRec)
    /\ HeadRec.cartChangeTrail.kind = "none"
    /\ HeadRec.paymentSummary.kind = "none"
    /\ HeadRec.transactionSummary.kind # "none"
    /\ LET old == buffers[HeadPort][1]
           buf == SummaryApplied(old, HeadRec.transactionSummary.v)
           tx  == CloseTx(HeadPort, HeadRec, buf, now)
       IN /\ buffers' = [buffers EXCEPT ![HeadPort] = Some(buf)]
          /\ IF old.summary_list = <<>> /\ old.awaiting_cash_change
             THEN UNCHANGED <<events, pending, ppc>>
             ELSE /\ events' = save_tx_event(events, tx)
                  /\ pending' = [port |-> HeadPort, close |-> TRUE, tx |-> Some(tx)]
                  /\ ppc' = "put"
    /\ parser_queue' = Tail(parser_queue)
    /\ cyc' = CycRecord(HeadPort, HeadRec)
    /\ UNCHANGED <<envvars, tx_queue, dispvars>>

ParserSummary ==
    /\ ParserReady
    /\ ForBuffer(HeadRec)
    /\ buffers[HeadPort] # None
    /\ ~MetaTruthy(HeadRec)
    /\ HeadRec.cartChangeTrail.kind = "none"
    /\ HeadRec.paymentSummary.kind = "none"
    /\ HeadRec.transactionSummary.kind # "none"
    /\ LET buf == SummaryApplied(buffers[HeadPort][1], HeadRec.transactionSummary.v)
           tx  == CloseTx(HeadPort, HeadRec, buf, now)
       IN /\ buffers' = [buffers EXCEPT ![HeadPort] = Some(buf)]
          /\ events' = save_tx_event(events, tx)
          /\ pending' = [port |-> HeadPort, close |-> TRUE, tx |-> Some(tx)]
    /\ ppc' = "put"
    /\ parser_queue' = Tail(parser_queue)
    /\ cyc' = CycRecord(HeadPort, HeadRec)
    /\ UNCHANGED <<envvars, tx_queue, dispvars>>

\* a last branch that resets the buffer of the port
ParserIgnore_Resets ==
    /\ ParserReady
    /\ ForBuffer(HeadRec)
    /\ buffers[HeadPort] # None
    /\ ~MetaTruthy(HeadRec)
    /\ HeadRec.cartChangeTrail.kind = "none"
    /\ HeadRec.paymentSummary.kind = "none"
    /\ HeadRec.transactionSummary.kind = "none"
    /\ buffers' = [buffers EXCEPT ![HeadPort] = None]
    /\ parser_queue' = Tail(parser_queue)
    /\ cyc' = CycRecord(HeadPort, HeadRec)
    /\ UNCHANGED <<envvars, ppc, pending, events, tx_queue, dispvars>>

\* none of the branches matches
ParserIgnore ==
    /\ ParserReady
    /\ ForBuffer(HeadRec)
    /\ buffers[HeadPort] # None
    /\ ~MetaTruthy(HeadRec)
    /\ HeadRec.cartChangeTrail.kind = "none"
    /\ HeadRec.paymentSummary.kind = "none"
    /\ HeadRec.transactionSummary.kind = "none"
    /\ parser_queue' = Tail(parser_queue)
    /\ cyc' = CycRecord(HeadPort, HeadRec)
    /\ UNCHANGED <<envvars, buffers, ppc, pending, events, tx_queue, dispvars>>

\* a put that leaves the buffer of the port open after a cycle close
ParserPut_KeepsBuffer ==
    /\ ppc = "put"
    /\ tx_queue' = Append(tx_queue, pending.tx[1])
    /\ cyc' = IF pending.close
              THEN [cyc EXCEPT ![pending.port].out =
                                   Append(@, Len(taken) + Len(tx_queue) + 1)]
              ELSE cyc
    /\ ppc' = "get"
    /\ pending' = NoPending
    /\ UNCHANGED <<envvars, parser_queue, buffers, events, dispvars>>

\* a put that resets the buffer of the port after every emitted transaction
ParserPut_ClearsAlways ==
    /\ ppc = "put"
    /\ tx_queue' = Append(tx_queue, pending.tx[1])
    /\ buffers' = [buffers EXCEPT ![pending.port] = None]
    /\ cyc' = IF pending.close
              THEN [cyc EXCEPT ![pending.port].out =
                                   Append(@, Len(taken) + Len(tx_queue) + 1)]
              ELSE cyc
    /\ ppc' = "get"
    /\ pending' = NoPending
    /\ UNCHANGED <<envvars, parser_queue, events, dispvars>>

\* tx_queue.put(tx); buffers[port] = None after a cycle close
ParserPut ==
    /\ ppc = "put"
    /\ tx_queue' = Append(tx_queue, pending.tx[1])
    /\ buffers' = IF pending.close THEN [buffers EXCEPT ![pending.port] = None] ELSE buffers
    /\ cyc' = IF pending.close
              THEN [cyc EXCEPT ![pending.port].out =
                                   Append(@, Len(taken) + Len(tx_queue) + 1)]
              ELSE cyc
    /\ ppc' = "get"
    /\ pending' = NoPending
    /\ UNCHANGED <<envvars, parser_queue, events, dispvars>>

(* --------------------------- token cache ------------------------------- *)
ExpiresIns == {100, 3600}      \* lifetimes the identity endpoint reports

\* a cache that forgets its token when the request fails
fetch_token_ClearsOnFailure(td, clock, n) ==
    IF td.access_token # 0 /\ (td.expires_at - 60) > clock
    THEN {[ok |-> TRUE, request |-> FALSE, token |-> td.access_token, data |-> td]}
    ELSE {[ok |-> FALSE, request |-> TRUE, token |-> 0,
           data |-> [access_token |-> 0, expires_at |-> 0]]}
         \cup {[ok |-> TRUE, request |-> TRUE, token |-> n + 1,
                data |-> [access_token |-> n + 1, expires_at |-> clock + e]] :
               e \in ExpiresIns}

\* a cache test without the 60 second margin
fetch_token_NoMargin(td, clock, n) ==
    IF td.access_token # 0 /\ td.expires_at > clock
    THEN {[ok |-> TRUE, request |-> FALSE, token |-> td.access_token, data |-> td]}
    ELSE {[ok |-> FALSE, request |-> TRUE, token |-> 0, data |-> td]}
         \cup {[ok |-> TRUE, request |-> TRUE, token |-> n + 1,
                data |-> [access_token |-> n + 1, expires_at |-> clock + e]] :
               e \in ExpiresIns}

\* fetch_token: what it can return at time clock, and the cache afterwards.
\* request: a client-credentials request was made; ok: a token was returned
\* (otherwise the request raised).
fetch_token(td, clock, n) ==
    IF td.access_token # 0 /\ (td.expires_at - 60) > clock
    THEN {[ok |-> TRUE, request |-> FALSE, token |-> td.access_token, data |-> td]}
    ELSE {[ok |-> FALSE, request |-> TRUE, token |-> 0, data |-> td]}
         \cup {[ok |-> TRUE, request |-> TRUE, token |-> n + 1,
                data |-> [access_token |-> n + 1, expires_at |-> clock + e]] :
               e \in ExpiresIns}

(* -------------------------- payload builders --------------------------- *)
NumericStrings == {"0", "7", "42", "43"}

\* int(tx['seq'] or default) raises
IntRaises(seq) == seq # "" /\ seq \notin NumericStrings

\* ts.split('T')[0], ts[:10]
DateOf(ts) == ts.t \div DaySecs

\* int(seq) of a numeric string
IntOf(seq) ==
    CASE seq = "7"  -> 7
      [] seq = "42" -> 42
      [] seq = "43" -> 43
      [] OTHER      -> 0

\* the money values of the inputs whose nearest double lies below the decimal
\* literal (float('1.005') is 1.00499999999999989...)
DoubleBelow == {1005}

\* Decimal(v).quantize(Decimal('0.01'), ROUND_HALF_UP): Decimal(v) is the exact
\* value of the double, a half goes away from zero
Quantize(v) ==
    LET a == IF v < 0 THEN 0 - v ELSE v
        r == a % 10
        q == IF r < 5 \/ (r = 5 /\ a \in DoubleBelow) THEN a - r ELSE a - r + 10
    IN IF v < 0 THEN 0 - q ELSE q

\* sum(...) of a sequence of numbers
RECURSIVE SumOf(_)
SumOf(s) == IF s = <<>> THEN 0 ELSE Head(s) + SumOf(Tail(s))

\* map_tender on the tender descriptions that occur
map_tender(desc) ==
    CASE Upper(desc) = "CASH" -> "Cash"
      [] Upper(desc) = "VISA" -> "CreditCard"
      [] OTHER                -> "Other"

\* 'PROMO' in itm['name'].upper(), on the item names that occur
PromoNames == {"PROMO Cola", "Promo Chips"}

\* k.startswith('TAX'), on the summary keys that occur
TaxKeys == {"TAX", "TAX 6%"}

\* sm.get(key, default)
SmGet(sm, key, default) == IF key \in DOMAIN sm THEN sm[key] ELSE default

\* next((v for k, v in sm.items() if k.startswith('TAX')), 0.0); the summaries
\* that occur carry at most one such key
TaxAmt(sm) ==
    IF DOMAIN sm \cap TaxKeys = {} THEN 0
    ELSE sm[CHOOSE k \in DOMAIN sm \cap TaxKeys : TRUE]

\* total_due = sm.get('TOTAL DUE', subtotal + discount + tax_amt), quantized
TotDue(tx) ==
    LET sm == tx.summary_map
    IN Quantize(SmGet(sm, "TOTAL DUE",
                      SmGet(sm, "SUBTOTAL", 0) + SmGet(sm, "DISCOUNT(S)", 0) + TaxAmt(sm)))

\* the shape of every payload
BlankPayload ==
    [none |-> FALSE, model |-> "", guid |-> "", stamp |-> NoTs, type |-> "", biz |-> 0,
     store |-> "", terminal |-> "", employee_id |-> "", employee_name |-> "",
     refund_total |-> 0,
     order |-> [id |-> "", number |-> 0, time |-> NoTs, state |-> "", items |-> <<>>,
                total |-> 0, tax |-> <<>>, count |-> 0, payments |-> <<>>]]

NonePayload == [BlankPayload EXCEPT !.none = TRUE]

\* builds cash_op_payload and ends without a return statement
build_cash_op_payload(tx) == NonePayload

\* an order line that takes every price as it is
TxnLine_KeepsPrice(tx, itm, idx) ==
    [state    |-> IF itm.event = "void" THEN "Voided" ELSE "Added",
     typ      |-> IF itm.event = "void" THEN "Voided" ELSE "Sale",
     category |-> IF itm.name \in PromoNames \/ itm.price < 0 THEN "Promotion" ELSE "General",
     pid      |-> <<"PID", tx.seq, idx>>,
     name     |-> itm.name,
     price    |-> Quantize(itm.price),
     quantity |-> itm.quantity]

\* one entry of items_list of build_txn_payload
TxnLine(tx, itm, idx) ==
    LET is_void    == itm.event = "void"
        is_promo   == itm.name \in PromoNames \/ itm.price < 0
        item_price == IF is_promo /\ itm.price > 0 /\ ~is_void
                      THEN 0 - itm.price ELSE itm.price
    IN [state    |-> IF is_void THEN "Voided" ELSE "Added",
        typ      |-> IF is_void THEN "Voided" ELSE "Sale",
        category |-> IF is_promo THEN "Promotion" ELSE "General",
        pid      |-> <<"PID", tx.seq, idx>>,
        name     |-> itm.name,
        price    |-> Quantize(item_price),
        quantity |-> itm.quantity]

\* one entry of payments of build_txn_payload
TxnPayment(tx, p) ==
    [stamp  |-> tx.ts_utc,
     status |-> IF Quantize(p.amount) >= 0 THEN "Accepted" ELSE "Denied",
     amount |-> Quantize(p.amount),
     change |-> Quantize(IF p.change.kind = "none" THEN 0 ELSE p.change.v),
     tender |-> map_tender(p.tenderType)]

\* payments without the default cash payment
TxnPayments_NoDefault(tx) ==
    LET kept == SelectSeq(tx.payments, LAMBDA p : Quantize(p.amount) # 0)
    IN [i \in 1..Len(kept) |-> TxnPayment(tx, kept[i])]

\* the payments of build_txn_payload: those with amt == 0 are skipped, and the
\* default cash payment stands in when none is left
TxnPayments(tx) ==
    LET kept == SelectSeq(tx.payments, LAMBDA p : Quantize(p.amount) # 0)
    IN IF kept = <<>> /\ TotDue(tx) > 0
       THEN << [stamp |-> tx.ts_utc, status |-> "Accepted", amount |-> TotDue(tx),
                change |-> 0, tender |-> "Cash"] >>
       ELSE [i \in 1..Len(kept) |-> TxnPayment(tx, kept[i])]

\* an order state that is Voided as soon as one line is a void
OrderState_AnyVoid(tx) == IF tx.voids # <<>> THEN "Voided" ELSE "Closed"

\* order_state of build_txn_payload
OrderState(tx) ==
    LET lines == tx.items \o tx.voids
    IN IF tx.voids # <<>> /\ \A i \in 1..Len(lines) : lines[i].event = "void"
       THEN "Voided" ELSE "Closed"

\* transaction_type of build_txn_payload
TransactionType(tx) == IF tx.voids # <<>> THEN "Update" ELSE "New"

\* seq_num of build_txn_payload; time.time() is 1672531200 at 2023-01-01T00:00:00Z
SeqNum(tx, clock) ==
    LET n == IF tx.seq = "" THEN 1000 ELSE IntOf(tx.seq)
    IN IF n <= 0 THEN (1672531200 + clock) % 10000 ELSE n

build_txn_payload(tx, clock) ==
    LET sm    == tx.summary_map
        lines == tx.items \o tx.voids
        tax_d == Quantize(TaxAmt(sm))
        items == [i \in 1..Len(lines) |-> TxnLine(tx, lines[i], i)]
    IN [BlankPayload EXCEPT
           !.model = "Transaction", !.guid = tx.guid,
           !.stamp = IsoTs(clock), !.type = TransactionType(tx),
           !.biz = DateOf(IsoTs(clock)),
           !.store = tx.store, !.terminal = tx.terminal,
           !.employee_id = tx.employee_id, !.employee_name = tx.employee_name,
           !.order = [id |-> tx.guid, number |-> SeqNum(tx, clock), time |-> IsoTs(clock),
                      state |-> OrderState(tx), items |-> items,
                      total |-> Quantize(SmGet(sm, "SUBTOTAL", 0) + SmGet(sm, "DISCOUNT(S)", 0)),
                      tax |-> IF tax_d > 0
                              THEN << [amount |-> tax_d, description |-> "Sales Tax"] >>
                              ELSE <<>>,
                      count |-> Len(items), payments |-> TxnPayments(tx)]]

\* one entry of items_list of build_refund_payload
RefundLine(tx, itm, idx) ==
    [state |-> "Added", typ |-> "Refund", category |-> "Refund",
     pid |-> <<"", tx.seq, idx>>, name |-> itm.name,
     price |-> Quantize(itm.price), quantity |-> itm.quantity]

\* one entry of payments of build_refund_payload: the amount is not quantized
RefundPayment(tx, p) ==
    [stamp |-> tx.ts_utc, status |-> "Accepted", amount |-> p.amount, change |-> 0,
     tender |-> map_tender(p.tenderType)]

build_refund_payload(tx) ==
    LET items == [i \in 1..Len(tx.items) |-> RefundLine(tx, tx.items[i], i)]
        kept  == SelectSeq(tx.payments, LAMBDA p : p.amount # 0)
    IN [BlankPayload EXCEPT
           !.model = "RefundTransaction", !.guid = tx.guid,
           !.stamp = tx.ts_utc, !.type = "New", !.biz = DateOf(tx.ts_utc),
           !.store = tx.store, !.terminal = tx.terminal,
           !.employee_id = tx.employee_id, !.employee_name = tx.employee_name,
           !.refund_total = SumOf([i \in 1..Len(tx.payments) |-> tx.payments[i].amount]),
           !.order = [id |-> tx.guid,
                      number |-> IF tx.seq = "" THEN 0 ELSE IntOf(tx.seq),
                      time |-> tx.ts_utc, state |-> "Closed", items |-> items,
                      total |-> Quantize(SumOf([i \in 1..Len(items) |->
                                                   items[i].price * items[i].quantity])),
                      tax |-> <<>>, count |-> Len(items),
                      payments |-> [i \in 1..Len(kept) |-> RefundPayment(tx, kept[i])]]]

(* ------------------------- dispatcher_worker --------------------------- *)
\* the branch dispatcher_worker takes for tx
Route(tx) ==
    IF tx.operation # ""
    THEN "cash"
    ELSE IF \/ Lower(tx.type) = "refund"
            \/ (tx.items # <<>> /\ \A i \in 1..Len(tx.items) : tx.items[i].price < 0)
    THEN "refund"
    ELSE "txn"

Url(tx) ==
    CASE Route(tx) = "cash"   -> CASH_URL
      [] Route(tx) = "refund" -> REFUND_URL
      [] OTHER                -> TXN_URL

BuildPayload(tx, clock) ==
    CASE Route(tx) = "cash"   -> build_cash_op_payload(tx)
      [] Route(tx) = "refund" -> build_refund_payload(tx)
      [] OTHER                -> build_txn_payload(tx, clock)

\* the payload builder raises, outside the try block
BuildRaises(tx) == Route(tx) # "cash" /\ IntRaises(tx.seq)

\* a response body or exception text: what it says, its length, whether it has newlines
Text(t, len, nl) == [text |-> t, len |-> len, nl |-> nl]

Statuses == {200, 300}      \* status codes the data endpoints answer with

RespBody(status) ==
    IF status < 300 THEN Text("accepted", 8, FALSE) ELSE Text("error page", 500, TRUE)

TokenError == Text("token request failed", 20, FALSE)
PostError  == Text("connection failed", 17, FALSE)
TypeError  == Text("'NoneType' object is not subscriptable", 38, FALSE)

\* (resp_body or '')[:200].replace('\n', ' ')
Snippet(body) == [text |-> body.text, len |-> IF body.len > 200 THEN 200 ELSE body.len,
                  nl |-> FALSE]

IsSuccess(status_code) == 200 <= status_code /\ status_code < 300

\* write_transaction_by_date: the log line and the snapshot file
AuditLine(tx, success, status_code, resp_body) ==
    [dest |-> IF success THEN "sent" ELSE "failed", day |-> DateOf(tx.ts_utc),
     key |-> FileKey(tx), status |-> status_code, snippet |-> Snippet(resp_body)]

write_transaction_by_date(tx, success, status_code, resp_body) ==
    /\ audit' = Append(audit, AuditLine(tx, success, status_code, resp_body))
    /\ archive' = archive \cup {[day |-> DateOf(tx.ts_utc),
                                 dest |-> IF success THEN "sent" ELSE "failed",
                                 key |-> FileKey(tx)]}

DispReady == dpc = "get" /\ tx_queue # <<>>

\* tx = tx_queue.get()
Take ==
    /\ taken' = Append(taken, Head(tx_queue))
    /\ tx_queue' = Tail(tx_queue)

\* requests.post(url, headers={'Authorization': Bearer token, ...}, json=payload)
PostOf(tx, token, clock) ==
    [url |-> Url(tx), payload |-> BuildPayload(tx, clock), key |-> FileKey(tx),
     auth |-> token]

\* build_txn_payload / build_refund_payload raises: the thread ends
DispatchBuildRaises ==
    /\ DispReady
    /\ BuildRaises(Head(tx_queue))
    /\ Take
    /\ dpc' = "dead"
    /\ UNCHANGED <<envvars, asmvars, token_data, ntoken, posts, audit, archive, dthreads>>

\* fetch_token raises
DispatchTokenFails ==
    /\ DispReady
    /\ ~BuildRaises(Head(tx_queue))
    /\ \E r \in fetch_token(token_data, now, ntoken) :
          /\ ~r.ok
          /\ token_data' = r.data
          /\ ntoken' = ntoken + 1
    /\ Take
    /\ write_transaction_by_date(Head(tx_queue), FALSE, 0, TokenError)
    /\ UNCHANGED <<envvars, asmvars, dpc, posts, dthreads>>

\* payload['model'] raises on a payload that is None
DispatchNoPayload ==
    /\ DispReady
    /\ ~BuildRaises(Head(tx_queue))
    /\ BuildPayload(Head(tx_queue), now).none
    /\ \E r \in fetch_token(token_data, now, ntoken) :
          /\ r.ok
          /\ token_data' = r.data
          /\ ntoken' = IF r.request THEN ntoken + 1 ELSE ntoken
    /\ Take
    /\ write_transaction_by_date(Head(tx_queue), FALSE, 0, TypeError)
    /\ UNCHANGED <<envvars, asmvars, dpc, posts, dthreads>>

\* a dispatcher that puts the transaction back on the queue when the POST raises
DispatchPostRaises_Retry ==
    /\ DispReady
    /\ ~BuildRaises(Head(tx_queue))
    /\ ~BuildPayload(Head(tx_queue), now).none
    /\ \E r \in fetch_token(token_data, now, ntoken) :
          /\ r.ok
          /\ token_data' = r.data
          /\ ntoken' = IF r.request THEN ntoken + 1 ELSE ntoken
          /\ posts' = Append(posts, PostOf(Head(tx_queue), r.token, now))
    /\ taken' = Append(taken, Head(tx_queue))
    /\ tx_queue' = Append(Tail(tx_queue), Head(tx_queue))
    /\ write_transaction_by_date(Head(tx_queue), FALSE, 0, PostError)
    /\ UNCHANGED <<envvars, asmvars, dpc, dthreads>>

\* requests.post raises
DispatchPostRaises ==
    /\ DispReady
    /\ ~BuildRaises(Head(tx_queue))
    /\ ~BuildPayload(Head(tx_queue), now).none
    /\ \E r \in fetch_token(token_data, now, ntoken) :
          /\ r.ok
          /\ token_data' = r.data
          /\ ntoken' = IF r.request THEN ntoken + 1 ELSE ntoken
          /\ posts' = Append(posts, PostOf(Head(tx_queue), r.token, now))
    /\ Take
    /\ write_transaction_by_date(Head(tx_queue), FALSE, 0, PostError)
    /\ UNCHANGED <<envvars, asmvars, dpc, dthreads>>

\* requests.post returns a response
DispatchPostReturns ==
    /\ DispReady
    /\ ~BuildRaises(Head(tx_queue))
    /\ ~BuildPayload(Head(tx_queue), now).none
    /\ \E r \in fetch_token(token_data, now, ntoken) :
          /\ r.ok
          /\ token_data' = r.data
          /\ ntoken' = IF r.request THEN ntoken + 1 ELSE ntoken
          /\ posts' = Append(posts, PostOf(Head(tx_queue), r.token, now))
    /\ Take
    /\ \E status_code \in Statuses :
          write_transaction_by_date(Head(tx_queue), IsSuccess(status_code), status_code,
                                    RespBody(status_code))
    /\ UNCHANGED <<envvars, asmvars, dpc, dthreads>>

(* --------------------------- specification ----------------------------- *)
Next ==
    \/ Tick
    \/ ReaderForward
    \/ ParserCashCommand
    \/ ParserStartTransaction
    \/ ParserDrop
    \/ ParserMeta
    \/ ParserCart
    \/ ParserPayment
    \/ ParserSummary
    \/ ParserIgnore
    \/ ParserPut
    \/ DispatchBuildRaises
    \/ DispatchTokenFails
    \/ DispatchNoPayload
    \/ DispatchPostRaises
    \/ DispatchPostReturns

Spec == Init /\ [][Next]_vars

\* one iteration of the while True loop of each worker thread
ParserStep ==
    \/ ParserCashCommand \/ ParserStartTransaction \/ ParserDrop \/ ParserMeta
    \/ ParserCart \/ ParserPayment \/ ParserSummary \/ ParserIgnore \/ ParserPut

DispatchStep ==
    \/ DispatchBuildRaises \/ DispatchTokenFails \/ DispatchNoPayload
    \/ DispatchPostRaises \/ DispatchPostReturns

(* ------------- dispatcher_worker, one dispatch step by step ------------ *)
\* tx = tx_queue.get(), the payload is built, and fetch_token reads the clock and
\* the cache: it returns the cached token or sends a client-credentials request
ThreadTake(d) ==
    /\ dthreads[d].pc = "get"
    /\ tx_queue # <<>>
    /\ Take
    /\ LET tx     == Head(tx_queue)
           cached == \E r \in fetch_token(token_data, now, ntoken) : ~r.request
       IN /\ dthreads' = [dthreads EXCEPT ![d] =
                 IF BuildRaises(tx) THEN [IdleThread EXCEPT !.pc = "dead"]
                 ELSE IF cached
                 THEN [pc |-> "post", tx |-> Some(tx), at |-> now, req |-> 0,
                       token |-> token_data.access_token]
                 ELSE [pc |-> "token", tx |-> Some(tx), at |-> now, req |-> ntoken + 1,
                       token |-> 0]]
          /\ ntoken' = IF ~BuildRaises(tx) /\ ~cached THEN ntoken + 1 ELSE ntoken
    /\ UNCHANGED <<envvars, asmvars, dpc, token_data, posts, audit, archive>>

\* the request raises: requests.post or raise_for_status
ThreadTokenRaises(d) ==
    /\ dthreads[d].pc = "token"
    /\ write_transaction_by_date(dthreads[d].tx[1], FALSE, 0, TokenError)
    /\ dthreads' = [dthreads EXCEPT ![d] = IdleThread]
    /\ UNCHANGED <<envvars, asmvars, tx_queue, dpc, taken, token_data, ntoken, posts>>

\* the request returns a token: it is stored with the clock value read on entry
ThreadTokenReturns(d) ==
    /\ dthreads[d].pc = "token"
    /\ \E r \in fetch_token([access_token |-> 0, expires_at |-> 0], dthreads[d].at,
                             dthreads[d].req - 1) :
          /\ r.ok
          /\ token_data' = r.data
          /\ dthreads' = [dthreads EXCEPT ![d].pc = "post", ![d].token = r.token]
    /\ UNCHANGED <<envvars, asmvars, tx_queue, dpc, taken, ntoken, posts, audit, archive>>

\* payload['model'] raises on a payload that is None
ThreadNoPayload(d) ==
    /\ dthreads[d].pc = "post"
    /\ BuildPayload(dthreads[d].tx[1], dthreads[d].at).none
    /\ write_transaction_by_date(dthreads[d].tx[1], FALSE, 0, TypeError)
    /\ dthreads' = [dthreads EXCEPT ![d] = IdleThread]
    /\ UNCHANGED <<envvars, asmvars, tx_queue, dpc, taken, token_data, ntoken, posts>>

\* requests.post raises or returns a response
ThreadPost(d) ==
    /\ dthreads[d].pc = "post"
    /\ ~BuildPayload(dthreads[d].tx[1], dthreads[d].at).none
    /\ posts' = Append(posts, PostOf(dthreads[d].tx[1], dthreads[d].token, dthreads[d].at))
    /\ \/ write_transaction_by_date(dthreads[d].tx[1], FALSE, 0, PostError)
       \/ \E status_code \in Statuses :
             write_transaction_by_date(dthreads[d].tx[1], IsSuccess(status_code),
                                       status_code, RespBody(status_code))
    /\ dthreads' = [dthreads EXCEPT ![d] = IdleThread]
    /\ UNCHANGED <<envvars, asmvars, tx_queue, dpc, taken, token_data, ntoken>>

ThreadNext ==
    \/ Tick
    \/ ReaderForward
    \/ ParserStep
    \/ \E d \in DispatcherThreads :
          \/ ThreadTake(d)
          \/ ThreadTokenRaises(d)
          \/ ThreadTokenReturns(d)
          \/ ThreadNoPayload(d)
          \/ ThreadPost(d)

\* the program with each dispatch followed step by step
ThreadSpec == Init /\ [][ThreadNext]_vars

(* ======================= properties of the assembler =================== *)
\* the transactions in dispatch order: those taken, then those still queued
Stream == taken \o tx_queue

\* which transition a record stands for when a buffer is open
ActsAs(rec) ==
    CASE rec.CMD \in CashCommands                -> "cash"
      [] rec.CMD = "StartTransaction"            -> "start"
      [] MetaTruthy(rec)                         -> "meta"
      [] rec.cartChangeTrail.kind # "none"       -> "cart"
      [] rec.paymentSummary.kind # "none"        -> "payment"
      [] rec.transactionSummary.kind # "none"    -> "summary"
      [] OTHER                                   -> "none"

Indices(recs, kind) == {i \in 1..Len(recs) : ActsAs(recs[i]) = kind}
Min(S) == CHOOSE i \in S : \A j \in S : i <= j
Max(S) == CHOOSE i \in S : \A j \in S : j <= i

\* the records of a cycle up to its first transaction-summary
Closed(recs) == Indices(recs, "summary") # {}
UpToClose(recs) ==
    IF Closed(recs) THEN SubSeq(recs, 1, Min(Indices(recs, "summary")) - 1) ELSE recs
ClosingSummary(recs) == recs[Min(Indices(recs, "summary"))]

\* what a sequence of records announces: cart entries, payments, meta
RECURSIVE Announced(_)
Announced(recs) ==
    IF recs = <<>> THEN <<>>
    ELSE (IF ActsAs(Head(recs)) = "cart"
          THEN CartEntries(Head(recs).cartChangeTrail.v) ELSE <<>>)
         \o Announced(Tail(recs))

AnnouncedPayments(recs) ==
    IF Indices(recs, "payment") = {} THEN <<>>
    ELSE PaymentEntries(recs[Max(Indices(recs, "payment"))].paymentSummary.v)

AnnouncedMeta(recs) ==
    IF Indices(recs, "meta") = {} THEN None
    ELSE recs[Max(Indices(recs, "meta"))].metaData

\* the parser has built the closing transaction of port p and not yet queued it
Closing(p) == ppc = "put" /\ pending.close /\ pending.port = p

\* the transactions emitted from the current cycle of port p, queued or about to be
CycleTxs(p) ==
    [i \in 1..Len(cyc[p].out) |-> Stream[cyc[p].out[i]]]
    \o (IF Closing(p) THEN <<pending.tx[1]>> ELSE <<>>)

\* C1: once a transaction-summary has been applied to the open cycle of a port,
\* exactly one transaction has been emitted from that cycle; it carries exactly
\* the items, voids and payments announced since the cycle-start and the summary
\* map of that summary; its snapshot is in the event store while it waits to be
\* queued, and the buffer of the port is None once it is queued.  Before that
\* summary no transaction is emitted from the cycle and the buffer stays open.
C1_CloseEmitsTransaction ==
    \A p \in SERIAL_PORTS :
        cyc[p].started =>
            LET recs == cyc[p].recs
                before == UpToClose(recs)
            IN IF ~Closed(recs)
               THEN /\ cyc[p].out = <<>>
                    /\ ~Closing(p)
                    /\ buffers[p] # None
               ELSE /\ \A i \in 1..Len(cyc[p].out) : cyc[p].out[i] <= Len(Stream)
                    /\ Len(CycleTxs(p)) = 1
                    /\ LET tx == CycleTxs(p)[1]
                       IN /\ tx.items = SelectEvent(Announced(before), "add")
                          /\ tx.voids = SelectEvent(Announced(before), "void")
                          /\ tx.payments = AnnouncedPayments(before)
                          /\ tx.summary_map =
                                 BuildSummaryMap(ClosingSummary(recs).transactionSummary.v)
                          /\ FileKey(tx) \in DOMAIN events
                          /\ Closing(p) => events[FileKey(tx)] = tx
                    /\ ~Closing(p) => buffers[p] = None

\* a cycle with an item, a void and a payment has closed and its transaction is queued
C1_Witness ==
    \E p \in SERIAL_PORTS :
        /\ cyc[p].started /\ Closed(cyc[p].recs) /\ ~Closing(p)
        /\ Len(cyc[p].out) = 1
        /\ LET tx == Stream[cyc[p].out[1]]
           IN /\ tx.items # <<>> /\ tx.voids # <<>> /\ tx.payments # <<>>
              /\ DOMAIN tx.summary_map # {}

\* C2, in every state: while the parser runs, the open buffer of a port holds
\* exactly what was announced since its last cycle-start (right after the
\* cycle-start: no meta, no items, no voids, no payments, an empty summary map),
\* and a transaction emitted from the cycle holds nothing else.
C2_CycleOnly ==
    \A p \in SERIAL_PORTS :
        (cyc[p].started /\ ppc # "dead") =>
            LET recs == cyc[p].recs
                before == UpToClose(recs)
            IN /\ (~Closed(recs) /\ buffers[p] # None) =>
                      LET buf == buffers[p][1]
                      IN /\ buf.meta = AnnouncedMeta(recs)
                         /\ buf.items = SelectEvent(Announced(recs), "add")
                         /\ buf.voids = SelectEvent(Announced(recs), "void")
                         /\ buf.payments = AnnouncedPayments(recs)
                         /\ buf.summary_map = EmptyMap
               /\ recs = <<>> => buffers[p] # None /\ cyc[p].out = <<>> /\ ~Closing(p)
               /\ \A i \in 1..Len(CycleTxs(p)) :
                      /\ CycleTxs(p)[i].items = SelectEvent(Announced(before), "add")
                      /\ CycleTxs(p)[i].voids = SelectEvent(Announced(before), "void")
                      /\ CycleTxs(p)[i].payments = AnnouncedPayments(before)

\* C2, in every step: a cycle-start record puts a fresh buffer on its port and
\* emits nothing.
C2_StartStep ==
    (ParserReady /\ HeadRec.CMD = "StartTransaction" /\ parser_queue' = Tail(parser_queue)) =>
        /\ buffers'[HeadPort] # None
        /\ LET buf == buffers'[HeadPort][1]
           IN /\ buf.meta = None /\ buf.items = <<>> /\ buf.voids = <<>>
              /\ buf.payments = <<>> /\ buf.summary_map = EmptyMap
        /\ tx_queue' = tx_queue /\ pending' = pending /\ ppc' = ppc /\ events' = events

\* C2: a cycle-start on a channel replaces the channel's buffer with a fresh empty
\* one and emits no transaction, and what an unfinished previous cycle had
\* accumulated appears in no transaction emitted later.
C2_CycleStartReplaces == []C2_CycleOnly /\ [][C2_StartStep]_vars

\* a cycle-start replaced a buffer that held items, and the new cycle has closed
C2_Witness ==
    \E p \in SERIAL_PORTS :
        /\ cyc[p].started /\ cyc[p].abandoned
        /\ Closed(cyc[p].recs) /\ Len(cyc[p].out) = 1

\* the second transaction-summary applied since the cycle-start
SecondSummary(recs) ==
    recs[Min(Indices(recs, "summary") \ {Min(Indices(recs, "summary"))})]

ChangeLines(summ) ==
    {i \in 1..Len(summ) : SummaryKey(summ[i]) = "CHANGE" /\ summ[i].details.ok}

\* C3: when, in a cycle with a cash payment, a second transaction-summary with a
\* CHANGE entry has been applied after the first, the transaction of the cycle
\* carries that value as the change of its first cash payment and keeps the
\* summary map of the first summary.
C3_LateChangeAttached ==
    \A p \in SERIAL_PORTS :
        LET recs == cyc[p].recs
            pays == AnnouncedPayments(UpToClose(recs))
            cash == {i \in 1..Len(pays) : pays[i].is_cash}
        IN (/\ cyc[p].started
            /\ Cardinality(Indices(recs, "summary")) >= 2
            /\ cash # {}
            /\ ChangeLines(SecondSummary(recs).transactionSummary.v) # {}) =>
               LET summ == SecondSummary(recs).transactionSummary.v
               IN /\ CycleTxs(p) # <<>>
                  /\ CycleTxs(p)[1].payments[Min(cash)].change =
                         Num(summ[Max(ChangeLines(summ))].details.v)
                  /\ CycleTxs(p)[1].summary_map =
                         BuildSummaryMap(ClosingSummary(recs).transactionSummary.v)

(* --------------------------- classification ---------------------------- *)
\* the operation tag a cycle announces: the last non-empty one of its meta records,
\* else the one of its cycle-start
AnnouncedTag(start, recs) ==
    LET tagged == {i \in Indices(recs, "meta") :
                      recs[i].metaData[1].operation \notin {Absent, ""}}
    IN IF tagged = {} THEN Get(start.operation, "")
       ELSE recs[Max(tagged)].metaData[1].operation

AnnouncedType(recs) ==
    IF AnnouncedMeta(recs) = None THEN ""
    ELSE Get(AnnouncedMeta(recs)[1].transactionType, "")

HasNegativeItem(recs) ==
    \E i \in 1..Len(Announced(recs)) :
        Announced(recs)[i].event = "add" /\ Announced(recs)[i].price < 0

\* explicit tag > price sign > default
Priority(start, recs) ==
    IF Lower(AnnouncedTag(start, recs)) \in {"nosale", "paidout", "cashdrop"}
    THEN "cash-operation"
    ELSE IF \/ HasNegativeItem(recs)
            \/ Lower(AnnouncedTag(start, recs)) = "refund"
            \/ Lower(AnnouncedType(recs)) = "refund"
    THEN "refund"
    ELSE "standard-sale"

\* C4: the classification of a transaction emitted at cycle close is
\* cash-operation when the operation tag of the cycle is nosale, paidout or
\* cashdrop in any case, even with a negative item price; otherwise refund when an
\* item has a negative price or the operation tag or the meta transaction type
\* is refund; otherwise standard-sale.  Every transaction has one of the three.
C4_ClassificationPriority ==
    /\ \A p \in SERIAL_PORTS :
           cyc[p].started =>
               \A i \in 1..Len(CycleTxs(p)) :
                   CycleTxs(p)[i].type = Priority(cyc[p].start, UpToClose(cyc[p].recs))
    /\ \A i \in 1..Len(Stream) :
           Stream[i].type \in {"cash-operation", "refund", "standard-sale"}

\* a cycle tagged as a cash operation closed with a negative item price
C4_Witness ==
    \E p \in SERIAL_PORTS :
        /\ cyc[p].started /\ Len(cyc[p].out) = 1
        /\ HasNegativeItem(UpToClose(cyc[p].recs))
        /\ Stream[cyc[p].out[1]].type = "cash-operation"

(* ----------------------- standalone cash commands ---------------------- *)
\* C7, in every step: the command builds one cash-operation transaction without
\* touching a buffer, and queueing it touches no buffer either.
C7_CommandStep ==
    /\ (ParserReady /\ HeadRec.CMD \in CashCommands /\ parser_queue' = Tail(parser_queue)) =>
           /\ buffers' = buffers
           /\ tx_queue' = tx_queue
           /\ ppc' = "put"
           /\ ~pending'.close
           /\ pending'.tx[1].type = "cash-operation"
           /\ pending'.tx[1].operation = Lower(HeadRec.CMD)
    /\ (ppc = "put" /\ ~pending.close /\ ppc' # ppc) =>
           /\ buffers' = buffers
           /\ tx_queue' = Append(tx_queue, pending.tx[1])
           /\ ppc' = "get"

\* C7, in every state: a cycle that a command interrupted still holds, and
\* closes with, everything announced before and after the command.
C7_Interrupted ==
    \A p \in SERIAL_PORTS :
        LET recs == cyc[p].recs
            before == UpToClose(recs)
        IN (cyc[p].started /\ Indices(before, "cash") # {} /\ ppc # "dead") =>
               /\ (~Closed(recs)) =>
                      /\ buffers[p] # None
                      /\ buffers[p][1].items = SelectEvent(Announced(recs), "add")
                      /\ buffers[p][1].voids = SelectEvent(Announced(recs), "void")
                      /\ buffers[p][1].payments = AnnouncedPayments(recs)
               /\ Closed(recs) =>
                      /\ Len(CycleTxs(p)) = 1
                      /\ CycleTxs(p)[1].items = SelectEvent(Announced(before), "add")
                      /\ CycleTxs(p)[1].voids = SelectEvent(Announced(before), "void")
                      /\ CycleTxs(p)[1].payments = AnnouncedPayments(before)

\* C7: a standalone NoSale, PaidOut or CashDrop command emits exactly one
\* cash-operation transaction at once, with the buffer of its channel None or
\* open, and leaves every buffer as it is; an open cycle it interrupts closes
\* later with all it accumulated.
C7_CommandBypassesBuffer == []C7_Interrupted /\ [][C7_CommandStep]_vars

\* a cycle with items took a command before its summary and has closed
C7_Witness ==
    \E p \in SERIAL_PORTS :
        /\ cyc[p].started /\ Closed(cyc[p].recs) /\ Len(cyc[p].out) = 1
        /\ Indices(UpToClose(cyc[p].recs), "cash") # {}
        /\ Stream[cyc[p].out[1]].items # <<>>
        /\ \E i \in 1..Len(Stream) : Stream[i].amount.kind # "none"

(* ----------------------- records without a cycle ----------------------- *)
BufferKinds == {"meta", "cart", "payment", "summary"}

C8_DropStep ==
    (/\ ParserReady
     /\ ActsAs(HeadRec) \in BufferKinds
     /\ buffers[HeadPort] = None
     /\ parser_queue' = Tail(parser_queue)) =>
        /\ buffers' = buffers
        /\ tx_queue' = tx_queue
        /\ events' = events
        /\ pending' = pending
        /\ ppc' = "get"

\* C8: a meta, cart-change, payment-summary or transaction-summary record taken
\* while its channel has no open cycle creates or changes no buffer, emits no
\* transaction, and leaves the assembler running for the next record.
C8_IdleRecordDropped == [][C8_DropStep]_vars

\* a record was applied to a port after its cycle had closed, and was dropped
C8_Witness ==
    \E p \in SERIAL_PORTS :
        LET recs == cyc[p].recs
        IN /\ cyc[p].started /\ Closed(recs) /\ ~Closing(p)
           /\ Len(recs) > Min(Indices(recs, "summary"))
           /\ ActsAs(recs[Len(recs)]) \in BufferKinds
           /\ buffers[p] = None
           /\ ppc = "get"

(* ======================= properties of the dispatcher ================== *)
ByClassification(type) ==
    CASE type = "cash-operation" -> CASH_URL
      [] type = "refund"         -> REFUND_URL
      [] OTHER                   -> TXN_URL

\* C5: every transaction taken from the dispatch queue is sent to the endpoint of
\* its classification: cash-operation to the cash-operations endpoint, refund to
\* the refunds endpoint, standard-sale to the transactions endpoint.
C5_RoutedByClassification ==
    \A i \in 1..Len(taken) : Url(taken[i]) = ByClassification(taken[i].type)

\* the transaction came from a standalone command: only those carry an amount
Standalone(tx) == tx.amount.kind # "none"

\* C6: for every transaction of a standalone command whose dispatch got a token,
\* a POST with a payload of model CashOperation went to the cash-operations
\* endpoint.
C6_CashCommandPosted ==
    \A i \in 1..Len(audit) :
        (Standalone(taken[i]) /\ audit[i].snippet.text # TokenError.text) =>
            \E j \in 1..Len(posts) :
                /\ posts[j].key = FileKey(taken[i])
                /\ posts[j].url = CASH_URL
                /\ posts[j].payload.model = "CashOperation"

\* C9: every transaction taken from the dispatch queue has exactly one audit
\* record, in the sent archive exactly when the status is 2xx and in the failed
\* archive otherwise, in the day partition of its own UTC timestamp.
C9_OneAuditRecordEach ==
    /\ Len(audit) = Len(taken)
    /\ \A i \in 1..Len(audit) :
           /\ audit[i].key = FileKey(taken[i])
           /\ audit[i].day = DateOf(taken[i].ts_utc)
           /\ audit[i].dest = "sent" <=> (200 <= audit[i].status /\ audit[i].status <= 299)
           /\ audit[i].dest \in {"sent", "failed"}

ErrorTexts == {Snippet(TokenError), Snippet(PostError), Snippet(TypeError)}

Count(s, key) == Cardinality({i \in 1..Len(s) : s[i].key = key})
CountTaken(key) == Cardinality({i \in 1..Len(taken) : FileKey(taken[i]) = key})

\* C10, in every state: a record with an exception text has status 0 and is in
\* the failed archive, and no more POSTs were issued for a transaction than
\* times it was taken.
C10_Recorded ==
    /\ \A i \in 1..Len(audit) :
           audit[i].snippet \in ErrorTexts =>
               audit[i].status = 0 /\ audit[i].dest = "failed"
    /\ \A j \in 1..Len(posts) : Count(posts, posts[j].key) <= CountTaken(posts[j].key)

\* C10, in every step: a failed token request ends the dispatch with status 0,
\* the error text and no POST; a dispatch removes its transaction from the queue
\* and issues at most one POST; the queue grows only by the parser's put.
C10_Step ==
    /\ (Len(taken') > Len(taken) /\ ntoken' = ntoken + 1 /\ token_data' = token_data) =>
           /\ posts' = posts
           /\ audit' = Append(audit, [dest |-> "failed", day |-> DateOf(Head(tx_queue).ts_utc),
                                      key |-> FileKey(Head(tx_queue)), status |-> 0,
                                      snippet |-> Snippet(TokenError)])
    /\ (Len(taken') > Len(taken)) =>
           /\ taken' = Append(taken, Head(tx_queue))
           /\ tx_queue' = Tail(tx_queue)
           /\ \/ posts' = posts
              \/ /\ Len(posts') = Len(posts) + 1
                 /\ posts'[Len(posts')].key = FileKey(Head(tx_queue))
                 /\ SubSeq(posts', 1, Len(posts)) = posts
    /\ (Len(taken') = Len(taken)) => posts' = posts /\ audit' = audit
    /\ (Len(tx_queue') > Len(tx_queue)) =>
           ppc = "put" /\ tx_queue' = Append(tx_queue, pending.tx[1])

\* C10: a token fetch or POST that raises is recorded with status 0 and the error
\* text, and the dispatcher does not retry: every transaction is POSTed at most
\* once and never put back on the dispatch queue.
C10_FailureRecordedNoRetry == []C10_Recorded /\ [][C10_Step]_vars

\* one dispatch failed at the token request and one at the POST
C10_Witness ==
    /\ \E i \in 1..Len(audit) : audit[i].snippet = Snippet(TokenError) /\ audit[i].status = 0
    /\ \E i \in 1..Len(audit) : audit[i].snippet = Snippet(PostError) /\ audit[i].status = 0

(* ====================== the dispatcher keeps running =================== *)
\* a dispatch has failed: a transaction was taken and not recorded as sent
FailedDispatch ==
    Len(taken) > Cardinality({i \in 1..Len(audit) : audit[i].dest = "sent"})

\* C11, in every state: after a failed dispatch the dispatcher still runs, so a
\* transaction that waits in the dispatch queue can be taken.
C11_CanTake == (FailedDispatch /\ tx_queue # <<>>) => ENABLED DispatchStep

\* C11, in every step: a transaction taken after a failed dispatch gets its own
\* audit record.
C11_TakeRecords ==
    (FailedDispatch /\ Len(taken') > Len(taken)) =>
        /\ Len(audit') = Len(audit) + 1
        /\ audit'[Len(audit')].key = FileKey(Head(tx_queue))

\* C11: no delivery fault stops the dispatcher: once a dispatch has failed (token
\* request, non-2xx answer, connection error, or a payload that cannot be built),
\* every transaction in or later added to the dispatch queue is taken and gets
\* its own audit record.
C11_NoFaultStopsDispatcher == []C11_CanTake /\ [][C11_TakeRecords]_vars

(* ================== properties of the assembler's parsing ============== *)
\* a cart-change entry with its unparsable numbers replaced by the defaults
Defaulted(c) ==
    CartItem([c EXCEPT !.price = IF NumRaises(@) THEN NoNum ELSE @,
                       !.quantity = IF NumRaises(@) THEN NoNum ELSE @])

DefaultedTrail(trail) == [i \in 1..Len(trail) |-> Defaulted(trail[i])]

\* the record at the head of parser_queue is applied to an open buffer
C12_Applies ==
    /\ ParserReady /\ parser_queue' = Tail(parser_queue)
    /\ ForBuffer(HeadRec) /\ ~MetaTruthy(HeadRec)
    /\ buffers[HeadPort] # None

\* C12, in every state: the assembler still runs, so a queued record can be
\* processed.
C12_CanProcess == parser_queue # <<>> => ENABLED ParserStep

\* C12, in every step that applies a record with an unparsable number: a
\* cart-change record adds every entry, the unparsable price read as 0 and the
\* unparsable quantity as 1; a payment-summary record stores one payment for
\* every "$" line; an unparsable summary value is read as 0; the buffer stays
\* open unless the record closes the cycle.
C12_Step ==
    C12_Applies =>
        LET rec == HeadRec
            old == buffers[HeadPort][1]
        IN /\ (rec.cartChangeTrail.kind # "none"
                   /\ \E i \in 1..Len(rec.cartChangeTrail.v) :
                          CartRaises(rec.cartChangeTrail.v[i])) =>
                  /\ buffers'[HeadPort] # None
                  /\ buffers'[HeadPort][1].items =
                         old.items \o SelectEvent(DefaultedTrail(rec.cartChangeTrail.v), "add")
                  /\ buffers'[HeadPort][1].voids =
                         old.voids \o SelectEvent(DefaultedTrail(rec.cartChangeTrail.v), "void")
           /\ (rec.cartChangeTrail.kind = "none" /\ rec.paymentSummary.kind # "none"
                   /\ \E i \in 1..Len(rec.paymentSummary.v) :
                          rec.paymentSummary.v[i].details.dollar
                          /\ rec.paymentSummary.v[i].details.comma) =>
                  /\ buffers'[HeadPort] # None
                  /\ Len(buffers'[HeadPort][1].payments) =
                         Cardinality({i \in 1..Len(rec.paymentSummary.v) :
                                         rec.paymentSummary.v[i].details.dollar})
           /\ (rec.cartChangeTrail.kind = "none" /\ rec.paymentSummary.kind = "none"
                   /\ rec.transactionSummary.kind # "none") =>
                  \A i \in 1..Len(rec.transactionSummary.v) :
                      LET e == rec.transactionSummary.v[i]
                      IN (~e.details.ok /\ old.summary_list = <<>>) =>
                             /\ pending'.tx # <<>>
                             /\ pending'.tx[1].summary_map[UpperStrip(e.description)] = 0

\* C12: no record content stops the assembler: an unparsable numeric field takes
\* its zero or default value, the open buffer is kept and the records queued
\* after it are still processed.
C12_NoRecordStopsAssembler == []C12_CanProcess /\ [][C12_Step]_vars

(* ===================== properties of the token cache =================== *)
\* a token is cached and its expiry is more than 60 seconds after the current time
C13_Fresh == token_data.access_token # 0 /\ token_data.expires_at > now + 60

\* the dispatch step called fetch_token: a transaction was taken and its payload built
TokenCall == Len(taken') > Len(taken) /\ dpc' # "dead"

\* C13, in every step: a call of the token cache returns the cached token without a request to
\* the identity endpoint if and only if a token is cached and its expiry is more
\* than 60 seconds after the current time; otherwise it makes exactly one
\* client-credentials request, and when that request returns a token, the token
\* is cached with expiry equal to the time of the call plus the reported lifetime
\* and is the one the call returns.
C13_Step ==
    TokenCall =>
        IF C13_Fresh
        THEN /\ ntoken' = ntoken
             /\ token_data' = token_data
             /\ Len(posts') > Len(posts) =>
                    posts'[Len(posts')].auth = token_data.access_token
        ELSE /\ ntoken' = ntoken + 1
             /\ \/ /\ token_data' = token_data
                   /\ posts' = posts
                   /\ audit'[Len(audit')].snippet = Snippet(TokenError)
                \/ /\ token_data'.access_token # 0
                   /\ (token_data'.expires_at - now) \in ExpiresIns
                   /\ Len(posts') > Len(posts) =>
                          posts'[Len(posts')].auth = token_data'.access_token

\* C13: the token cache returns the cached token without a request exactly when
\* the cached token has more than 60 seconds left, and otherwise makes one
\* client-credentials request and caches its token until call time plus lifetime.
C13_TokenCache == [][C13_Step]_vars

\* three dispatches without a failed token request: the first acquired token 1,
\* the second POSTed with that cached token and made no request, and the third,
\* made when token 1 had exactly 60 seconds left, acquired token 2
C13_Witness ==
    /\ Len(audit) = 3 /\ nticks = 1
    /\ \A i \in 1..3 : audit[i].snippet # Snippet(TokenError)
    /\ audit[1].snippet = Snippet(TypeError)
    /\ Len(posts) = 1 /\ posts[1].auth = 1 /\ posts[1].key = audit[2].key
    /\ ntoken = 2 /\ token_data.access_token = 2
    /\ token_data.expires_at = Now0 + 40 + 100

\* the dispatcher threads with a client-credentials request in flight
InFlight == {d \in DispatcherThreads : dthreads[d].pc = "token"}

\* a token is cached and has 60 seconds or less of validity left
C14_Stale == token_data.access_token # 0 /\ token_data.expires_at <= now + 60

\* C14, in every state: at most one token acquisition is in flight.
C14_OneInFlight == Cardinality(InFlight) <= 1

\* C14, in every step: a client-credentials request is sent only while none is
\* in flight and no token with more than 60 seconds left is cached; a dispatch
\* that asks while a fresh token is cached receives that token, the one the last
\* acquisition returned, and sends no request.
C14_Step ==
    /\ ntoken' # ntoken =>
           /\ ntoken' = ntoken + 1
           /\ InFlight = {}
           /\ ~C13_Fresh
    /\ \A d \in DispatcherThreads :
           (dthreads[d].pc = "get" /\ dthreads'[d].pc = "post") =>
               /\ ntoken' = ntoken
               /\ dthreads'[d].token = token_data.access_token
               /\ token_data.access_token = Max({dthreads[e].token : e \in DispatcherThreads}
                                                \cup {posts[i].auth : i \in 1..Len(posts)}
                                                \cup {token_data.access_token})
    /\ \A d \in DispatcherThreads :
           (dthreads[d].pc = "token" /\ dthreads'[d].pc = "post") =>
               token_data'.access_token = dthreads'[d].token

ApplyRec(buf, rec) ==
    CASE ActsAs(rec) = "meta" ->
             [buf EXCEPT !.meta = rec.metaData,
                         !.operation = IF rec.metaData[1].operation \notin {Absent, ""}
                                       THEN rec.metaData[1].operation ELSE @]
      [] ActsAs(rec) = "cart" ->
             [buf EXCEPT !.items = @ \o SelectEvent(CartEntries(rec.cartChangeTrail.v), "add"),
                         !.voids = @ \o SelectEvent(CartEntries(rec.cartChangeTrail.v), "void")]
      [] ActsAs(rec) = "payment" ->
             [buf EXCEPT !.payments = PaymentEntries(rec.paymentSummary.v),
                         !.awaiting_cash_change =
                             @ \/ \E i \in 1..Len(rec.paymentSummary.v) :
                                      /\ IsPayment(rec.paymentSummary.v[i])
                                      /\ ~PaymentsRaise(SubSeq(rec.paymentSummary.v, 1, i))
                                      /\ Upper(Get(rec.paymentSummary.v[i].description, ""))
                                             = "CASH"]
      [] ActsAs(rec) = "summary" -> SummaryApplied(buf, rec.transactionSummary.v)
      [] OTHER -> buf

\* the records of one cycle applied in order to the buffer its cycle-start opens
RECURSIVE Replay(_, _)
Replay(buf, recs) ==
    IF recs = <<>> THEN buf ELSE Replay(ApplyRec(buf, Head(recs)), Tail(recs))

\* wall-clock times at which the same records could be processed
WallClocks == {Now0, Now0 + 40, Now0 + DaySecs}

\* the transaction the cycle of port p emits when its records, up to the closing
\* summary, are processed at wall-clock time clock
Reprocessed(p, clock) ==
    LET recs == cyc[p].recs
        n    == Min(Indices(recs, "summary"))
    IN CloseTx(p, recs[n], Replay(NewBuffer(cyc[p].start), SubSeq(recs, 1, n)), clock)

\* the timestamp the cycle of port p is stamped with: the meta record's, else the
\* closing summary record's
Stamp(p) ==
    LET recs == UpToClose(cyc[p].recs)
        meta == IF AnnouncedMeta(recs) = None THEN NoMeta ELSE AnnouncedMeta(recs)[1]
    IN IF meta.timeStamp.kind # "empty" THEN meta.timeStamp
       ELSE ClosingSummary(cyc[p].recs).timestamp

\* C15 as claimed: the transaction a cycle emits is the one its records yield at
\* any other wall-clock time, whatever timestamp the cycle carries.
C15_SameAtAnyTime ==
    \A p \in SERIAL_PORTS :
        Closing(p) => \A c \in WallClocks : pending.tx[1] = Reprocessed(p, c)

\* C15, amended: the transaction a cycle emits is the one its records yield at any
\* other wall-clock time, equal in every field, when the cycle carries a
\* well-formed timestamp of 2023 or later.
C15_SameWhenStamped ==
    \A p \in SERIAL_PORTS :
        (Closing(p) /\ Stamp(p).kind = "iso" /\ Stamp(p).t >= 0) =>
            \A c \in WallClocks : pending.tx[1] = Reprocessed(p, c)

\* a stamped cycle closes after the clock has advanced
C15_Witness ==
    \E p \in SERIAL_PORTS :
        /\ Closing(p) /\ Stamp(p).kind = "iso" /\ Stamp(p).t >= 0
        /\ now # Now0
        /\ pending.tx[1].ts_utc.t = Stamp(p).t + UtcOffset

(* ============================ the guid ================================= *)
\* the transactions emitted so far: dispatched, queued, or about to be queued
EmittedTxs ==
    {Stream[i] : i \in 1..Len(Stream)}
        \cup (IF ppc = "put" THEN {pending.tx[1]} ELSE {})

\* C16: the guid of every emitted transaction, from a cycle close or from a
\* standalone cash command, is the uuid5 of the name made of its store, terminal,
\* sequence and UTC timestamp, so two transactions that agree on these four
\* fields have the same guid whatever their other fields and channels are.
C16_GuidOfFourFields ==
    /\ \A t \in EmittedTxs :
           t.guid = t.store \o "-" \o t.terminal \o "-" \o t.seq \o "-"
                        \o ToString(t.ts_utc.t)
    /\ \A t, u \in EmittedTxs :
           (t.store = u.store /\ t.terminal = u.terminal /\ t.seq = u.seq
                /\ t.ts_utc = u.ts_utc) => t.guid = u.guid

\* a standalone command of one channel and a closed cycle of the other, of
\* different classification and content, agree on the four fields and the guid
C16_Witness ==
    \E t, u \in EmittedTxs :
        /\ t.type = "cash-operation" /\ t.operation = "nosale"
        /\ u.type = "standard-sale" /\ u.summary_map # t.summary_map
        /\ t.store = u.store /\ t.terminal = u.terminal /\ t.seq = u.seq
        /\ t.ts_utc = u.ts_utc
        /\ t.guid = u.guid

(* ================== emitted transactions never change ================== *)
\* C17, in every state: the lists and the map of an emitted transaction are the
\* very objects of the buffer it was built from, so they can change only while
\* that buffer is still the buffer of its port; no buffer that is open has
\* emitted a transaction.
C17_NoSharedLists ==
    \A p \in SERIAL_PORTS : buffers[p] # None => cyc[p].out = <<>>

\* C17, in every step: every emitted transaction stays in the stream of
\* dispatched and queued transactions, at its place and with every field as it
\* was.
C17_Step ==
    /\ Len(Stream') >= Len(Stream)
    /\ \A i \in 1..Len(Stream) : Stream'[i] = Stream[i]

\* C17: once a transaction has been emitted, none of its fields is changed by a
\* later record on any channel, by a new cycle-start on its channel, or by a step
\* of the dispatcher.
C17_EmittedNeverChanges == []C17_NoSharedLists /\ [][C17_Step]_vars

\* a cycle of the only channel in use was closed with no items and its
\* transaction dispatched; a new cycle-start and a cart-change followed on the
\* same channel
C17_Witness ==
    \E p \in SERIAL_PORTS :
        /\ \A m \in profile : m[1] = p
        /\ buffers[p] # None /\ buffers[p][1].items # <<>>
        /\ Len(audit) >= 1
        /\ taken[1].type = "standard-sale" /\ taken[1].items = <<>>

(* ====================== order of records and transactions ============== *)
\* C18, in every state: the audit records stand in the order in which the
\* dispatcher took the transactions, one for each of the first transactions taken.
C18_AuditInDispatchOrder ==
    /\ Len(audit) <= Len(taken)
    /\ \A i \in 1..Len(audit) :
           /\ audit[i].key = FileKey(taken[i])
           /\ audit[i].day = DateOf(taken[i].ts_utc)

\* C18, in every step: a reader puts its record behind the records already
\* forwarded; the assembler takes the record forwarded first and applies that
\* record to the buffer (and the cycle) of the record's own port; an emitted
\* transaction goes behind the transactions already emitted, and the dispatcher
\* takes the transaction emitted first.
C18_Step ==
    /\ nread' # nread =>
           /\ parser_queue' = Append(parser_queue, parser_queue'[Len(parser_queue')])
           /\ buffers' = buffers /\ cyc' = cyc
    /\ (nread' = nread /\ parser_queue' # parser_queue) =>
           LET p   == Head(parser_queue)[1]
               rec == Head(parser_queue)[2]
           IN /\ parser_queue' = Tail(parser_queue)
              /\ \/ ~cyc[p].started /\ cyc'[p] = cyc[p]
                 \/ cyc[p].started /\ cyc'[p].recs = Append(cyc[p].recs, rec)
                 \/ cyc'[p].started /\ cyc'[p].start = rec /\ cyc'[p].recs = <<>>
              /\ (buffers[p] # None /\ ForBuffer(rec) /\ ppc' # "dead") =>
                     /\ buffers'[p] # None
                     /\ buffers'[p][1] = ApplyRec(buffers[p][1], rec)
    /\ \/ Stream' = Stream
       \/ ppc = "put" /\ Stream' = Append(Stream, pending.tx[1])
    /\ \/ taken' = taken
       \/ tx_queue # <<>> /\ taken' = Append(taken, Head(tx_queue))

\* C18: the records of one channel are applied to that channel's buffer in the
\* order the reader forwarded them, and transactions are dispatched in the order
\* they were emitted, so two transactions of one channel get their audit records
\* in the order their cycles closed.
C18_ArrivalOrder == []C18_AuditInDispatchOrder /\ [][C18_Step]_vars

\* two cycles of the only channel in use were closed one after the other, and
\* both transactions have their audit records
C18_Witness ==
    \E p \in SERIAL_PORTS :
        /\ \A m \in profile : m[1] = p
        /\ Len(audit) >= 2
        /\ FileKey(taken[1]) # FileKey(taken[2])
        /\ cyc[p].out = <<2>>

(* ===================== the buffers of different channels =============== *)
\* the entries of a sequence, as a set
Range(s) == {s[i] : i \in 1..Len(s)}

\* C19, in every step: a record of one port, and the queueing of the transaction
\* it emits, leave the buffer of every other port as it was; a reader changes no
\* buffer.
C19_Step ==
    /\ (nread' = nread /\ parser_queue' # parser_queue) =>
           \A q \in SERIAL_PORTS \ {Head(parser_queue)[1]} : buffers'[q] = buffers[q]
    /\ ppc = "put" =>
           \A q \in SERIAL_PORTS \ {pending.port} : buffers'[q] = buffers[q]
    /\ nread' # nread => buffers' = buffers

\* C19, in every state: the transaction a cycle close emits for a port holds
\* only cart entries and payments that the records of that port announced.
C19_OwnEntries ==
    \A p \in SERIAL_PORTS :
        Closing(p) =>
            LET tx == pending.tx[1]
            IN /\ Range(tx.items) \cup Range(tx.voids) \subseteq Range(Announced(cyc[p].recs))
               /\ \A i \in 1..Len(tx.payments) :
                      [tx.payments[i] EXCEPT !.change = NoNum]
                          \in Range(AnnouncedPayments(cyc[p].recs))

\* C19: the buffers of different channels are independent: a buffer record of
\* channel A leaves the buffer of channel B unchanged, and a transaction emitted
\* for channel A contains only entries received on channel A.
C19_ChannelsIndependent == []C19_OwnEntries /\ [][C19_Step]_vars

\* a cycle that announced no cart entry is closed on one port while the buffer of
\* the other port is open and holds items
C19_Witness ==
    \E p, q \in SERIAL_PORTS :
        /\ p # q
        /\ Closing(p) /\ pending.tx[1].items = <<>>
        /\ buffers[q] # None /\ buffers[q][1].items # <<>>

(* ================= two readers and the one assembler =================== *)
\* C20, in every step: the assembler takes at most one record, none while the
\* transaction of the record before is still to be queued, and the step changes
\* the buffer of at most one port.
C20_OneAtATime ==
    /\ Len(parser_queue') >= Len(parser_queue) - 1
    /\ ppc = "put" => (nread' # nread \/ parser_queue' = parser_queue)
    /\ \A p, q \in SERIAL_PORTS :
           (buffers'[p] # buffers[p] /\ buffers'[q] # buffers[q]) => p = q

\* C20, in every state: an open buffer holds what the records applied on its
\* port since the cycle-start give when they are applied alone, in order, to the
\* buffer the cycle-start opens
C20_AppliedAsAlone ==
    \A p \in SERIAL_PORTS :
        buffers[p] # None =>
            /\ cyc[p].started
            /\ buffers[p][1] = Replay(NewBuffer(cyc[p].start), cyc[p].recs)

\* the last record applied on port p is one whose conversion raised
StoppedBy(p) ==
    /\ cyc[p].recs # <<>>
    /\ LET r == cyc[p].recs[Len(cyc[p].recs)]
       IN \/ ActsAs(r) = "cart" /\ CartTrailRaises(r.cartChangeTrail.v)
          \/ ActsAs(r) = "payment" /\ PaymentsRaise(r.paymentSummary.v)

\* C20, in every state: the records of the other port never keep a record from
\* its buffer: when the assembler has stopped with a cycle-start or a buffer
\* record waiting first in the queue, it was a record of that record's own port
\* that stopped it
C20_NotHeldUp ==
    (ppc = "dead" /\ parser_queue # <<>> /\ Head(parser_queue)[2].CMD \notin CashCommands)
        => StoppedBy(Head(parser_queue)[1])

\* C20: with two readers forwarding in parallel the assembler applies at most
\* one record at a time, no buffer is changed by two records at once, and every
\* interleaving of the two readers gives each channel the buffer contents that
\* processing the channel's own records alone, in order, gives.
C20_TwoReaders ==
    []C20_AppliedAsAlone /\ []C20_NotHeldUp /\ [][C20_OneAtATime]_vars

(* ============ the renderers applied to emitted transactions ============ *)
RecCartVoid  == [NoRec EXCEPT !.cartChangeTrail =
                     OneObj(CartEntry("voidLineItem", "Coffee", Num(2000), Num(1)))]
RecCartPromo == [NoRec EXCEPT !.cartChangeTrail = ListOf(<<
                     CartEntry("addLineItem", "PROMO Cola", Num(1500), Num(2)),
                     CartEntry("voidLineItem", "Promo Chips", Num(1000), Num(1)),
                     CartEntry("voidLineItem", "Tea", Num(0 - 1500), Num(1)),
                     CartEntry("addLineItem", "Bagel", Num(12005), Num(1)) >>)]
RecPayZero   == [NoRec EXCEPT !.paymentSummary = ListOf(<<
                     Line("Visa", Money(TRUE, FALSE, TRUE, 0)),
                     Line("Cash", Money(TRUE, FALSE, TRUE, 4)) >>)]
RecPaySub    == [NoRec EXCEPT !.paymentSummary = ListOf(<<
                     Line("Cash", Money(TRUE, FALSE, TRUE, 12005)),
                     Line("Visa", Money(TRUE, FALSE, TRUE, 1005)) >>)]
RecSummaryTax == [NoRec EXCEPT !.transactionSummary = ListOf(<<
                     Line("Subtotal", Money(TRUE, FALSE, TRUE, 12004)),
                     Line("Tax 6%", Money(TRUE, FALSE, TRUE, 1005)),
                     Line("TOTAL DUE", Money(TRUE, FALSE, TRUE, 5000)) >>)]
RecSummaryNoDue == [NoRec EXCEPT !.transactionSummary =
                     OneObj(Line("Subtotal", Money(TRUE, FALSE, TRUE, 4)))]

\* the records of the cycles whose transactions are rendered, after the
\* cycle-start and up to the closing summary
RenderCycles == {
    <<RecSummary>>,
    <<RecCart, RecPayCash, RecSummary>>,
    <<RecCartVoid, RecPayVisa, RecSummary>>,
    <<RecCartPromo, RecPaySub, RecSummaryTax>>,
    <<RecCartPromo, RecPayZero, RecSummaryTax>>,
    <<RecCart, RecPayZero, RecSummaryNoDue>>,
    <<RecMeta, RecCart, RecSummaryTax>>,
    <<RecCartNeg, RecPaySub, RecSummary>>,
    <<RecCartNeg, RecCartVoid, RecPayZero, RecSummary>>,
    <<RecMetaOp, RecSummary>>,
    <<RecMetaSeq, RecSummary>> }

\* the transaction parser_worker emits for a cycle on COM3 at the start of the run
RenderTx(recs) ==
    CloseTx("COM3", recs[Len(recs)], Replay(NewBuffer(RecStart), recs), Now0)

\* the same cycle has been received twice and both transactions wait in tx_queue
RenderInit ==
    \E recs \in RenderCycles :
        /\ profile = On("COM3", {RecStart} \cup {recs[i] : i \in 1..Len(recs)})
        /\ nread = 0
        /\ nticks = 0
        /\ now = Now0
        /\ parser_queue = <<>>
        /\ buffers = [p \in SERIAL_PORTS |-> None]
        /\ ppc = "get"
        /\ pending = NoPending
        /\ events = save_tx_event(EmptyMap, RenderTx(recs))
        /\ tx_queue = <<RenderTx(recs), RenderTx(recs)>>
        /\ cyc = [p \in SERIAL_PORTS |->
                     IF p = "COM3"
                     THEN [started |-> TRUE, start |-> RecStart, abandoned |-> FALSE,
                           recs |-> recs, out |-> <<2>>]
                     ELSE NoCycle]
        /\ dpc = "get"
        /\ taken = <<>>
        /\ token_data = [access_token |-> 0, expires_at |-> 0]
        /\ ntoken = 0
        /\ posts = <<>>
        /\ audit = <<>>
        /\ archive = {}
        /\ dthreads = [d \in DispatcherThreads |-> IdleThread]
        /\ readers = [p \in SERIAL_PORTS |-> IdleReader]

RenderNext == Tick \/ DispatchStep

\* dispatcher_worker alone, on the transactions of the cycles above
RenderSpec == RenderInit /\ [][RenderNext]_vars

(* ================= properties of the standard-sale payload ============= *)
\* the payloads that were sent, each with the transaction it was rendered from
Rendered ==
    UNION {{<<posts[i].payload, t>> : t \in {u \in Range(taken) : FileKey(u) = posts[i].key}}
               : i \in 1..Len(posts)}

\* the order lines of a transaction: its items, then its voids
LinesOf(t) == t.items \o t.voids

\* C21: for every standard-sale transaction the rendered order state is Voided
\* if and only if the transaction has at least one line and every line is a void,
\* and Closed otherwise; the transaction type is Update if and only if at least
\* one line is a void, and New otherwise.
C21_OrderStateAndType ==
    \A r \in Rendered :
        LET pl    == r[1]
            lines == LinesOf(r[2])
            voids == {i \in 1..Len(lines) : lines[i].event = "void"}
        IN r[2].type = "standard-sale" =>
              /\ pl.model = "Transaction"
              /\ pl.order.state = IF lines # <<>> /\ voids = 1..Len(lines)
                                  THEN "Voided" ELSE "Closed"
              /\ pl.type = IF voids # {} THEN "Update" ELSE "New"

\* a transaction whose only line is a void was rendered Voided and Update, and
\* one with an item and a void was rendered Closed and Update
C21_Witness ==
    /\ \E r \in Rendered :
          /\ r[2].type = "standard-sale" /\ r[2].items = <<>> /\ r[2].voids # <<>>
          /\ r[1].order.state = "Voided" /\ r[1].type = "Update"

\* total-due of a transaction, in whole cents: the TOTAL DUE line of its summary,
\* else subtotal plus discount plus tax
TotalDue(t) ==
    LET sm  == t.summary_map
        val == IF "TOTAL DUE" \in DOMAIN sm THEN sm["TOTAL DUE"]
               ELSE SmGet(sm, "SUBTOTAL", 0) + SmGet(sm, "DISCOUNT(S)", 0) + TaxAmt(sm)
    IN Quantize(val)

\* the payments of a transaction whose amount is not zero (in whole cents)
Paying(t) == SelectSeq(t.payments, LAMBDA p : Quantize(p.amount) # 0)

\* C22: in every rendered standard-sale payload the payments of zero amount are
\* dropped and the others kept in order; when none remains and total-due is
\* greater than 0 the payload carries exactly one payment, a Cash payment of
\* total-due with change 0; so a payload with total-due greater than 0 has at
\* least one payment.
C22_PaymentsOfPayload ==
    \A r \in Rendered :
        LET pays == r[1].order.payments
            kept == Paying(r[2])
        IN r[2].type = "standard-sale" =>
              /\ \A i \in 1..Len(pays) : pays[i].amount # 0
              /\ kept # <<>> =>
                    /\ Len(pays) = Len(kept)
                    /\ \A i \in 1..Len(kept) :
                          /\ pays[i].amount = Quantize(kept[i].amount)
                          /\ pays[i].tender = map_tender(kept[i].tenderType)
              /\ (kept = <<>> /\ TotalDue(r[2]) > 0) =>
                    /\ Len(pays) = 1
                    /\ pays[1].tender = "Cash" /\ pays[1].status = "Accepted"
                    /\ pays[1].amount = TotalDue(r[2]) /\ pays[1].change = 0
              /\ (kept = <<>> /\ TotalDue(r[2]) <= 0) => pays = <<>>
              /\ TotalDue(r[2]) > 0 => Len(pays) >= 1

\* a transaction whose payments are all of zero amount was rendered with one
\* payment, the Cash payment of its total-due
C22_Witness ==
    \E r \in Rendered :
        /\ r[2].type = "standard-sale" /\ r[2].payments # <<>> /\ Paying(r[2]) = <<>>
        /\ TotalDue(r[2]) = 5000
        /\ Len(r[1].order.payments) = 1
        /\ r[1].order.payments[1].tender = "Cash"
        /\ r[1].order.payments[1].amount = 5000

\* total paid: the sum of the positive payment amounts, in whole cents
TotalPaid(t) ==
    LET pos == SelectSeq(t.payments, LAMBDA p : p.amount > 0)
    IN Quantize(SumOf([i \in 1..Len(pos) |-> pos[i].amount]))

\* the change a payload reports: the Change of its payments together
ReportedChange(pl) ==
    SumOf([i \in 1..Len(pl.order.payments) |-> pl.order.payments[i].change])

\* C23: for every standard-sale transaction the change reported in the rendered
\* payload equals the total paid (the sum of the positive payment amounts) minus
\* total-due; a cash payment larger than total-due gives a positive change.
C23_ChangeIsPaidMinusDue ==
    \A r \in Rendered :
        (r[2].type = "standard-sale" /\ r[2].payments # <<>>) =>
            ReportedChange(r[1]) = TotalPaid(r[2]) - TotalDue(r[2])

\* the line carries the promotion marker in its name or has a negative price
Marked(line) == line.name \in PromoNames \/ line.price < 0

\* C24, as stated: in a rendered standard-sale payload every order line (item or
\* void) whose name contains the promotion marker or whose price is negative has
\* category Promotion and a negative price; every other line has category General
\* and keeps its price.
C24_PromotionNegative ==
    \A r \in Rendered :
        r[2].type = "standard-sale" =>
            /\ Len(r[1].order.items) = Len(LinesOf(r[2]))
            /\ \A i \in 1..Len(LinesOf(r[2])) :
                  LET line == LinesOf(r[2])[i]
                      out  == r[1].order.items[i]
                  IN IF Marked(line)
                     THEN out.category = "Promotion" /\ out.price < 0
                     ELSE out.category = "General" /\ out.price = Quantize(line.price)

\* C24, amended: every order line whose name contains the promotion marker or
\* whose price is negative has category Promotion; such a line that is an item
\* (not a void) with a positive price is rendered with that price negated, and
\* any other such line keeps its price; every other line has category General and
\* keeps its price.
C24_PromotionItemNegated ==
    \A r \in Rendered :
        r[2].type = "standard-sale" =>
            /\ Len(r[1].order.items) = Len(LinesOf(r[2]))
            /\ \A i \in 1..Len(LinesOf(r[2])) :
                  LET line == LinesOf(r[2])[i]
                      out  == r[1].order.items[i]
                  IN /\ out.category = IF Marked(line) THEN "Promotion" ELSE "General"
                     /\ out.price = IF Marked(line) /\ line.event # "void" /\ line.price > 0
                                    THEN 0 - Quantize(line.price)
                                    ELSE Quantize(line.price)

\* a payload was rendered from an item with the marker and a positive price, a
\* void with the marker and a positive price, and a void with a negative price
C24_Witness ==
    \E r \in Rendered :
        /\ r[2].type = "standard-sale"
        /\ \E i \in 1..Len(r[2].items) :
              /\ r[2].items[i].name \in PromoNames /\ r[2].items[i].price > 0
              /\ r[1].order.items[i].price < 0
        /\ \E i \in 1..Len(r[2].voids) :
              /\ r[2].voids[i].name \in PromoNames /\ r[2].voids[i].price > 0
              /\ r[1].order.items[Len(r[2].items) + i].category = "Promotion"
        /\ \E i \in 1..Len(r[2].voids) : r[2].voids[i].price < 0

(* ==================== the money fields of the payloads ================= *)
\* a value of exactly 2 decimals
WholeCents(v) == v % 10 = 0

Abs(v) == IF v < 0 THEN 0 - v ELSE v

\* round-half-up to 2 decimals of a value of 3 decimals: 12.005 gives 12.01
HalfUp(v) ==
    LET q == ((Abs(v) + 5) \div 10) * 10
    IN IF v < 0 THEN 0 - q ELSE q

\* the lines a payload is rendered from: items and voids of a standard sale, the
\* items of a refund
SourceLines(r) == IF r[1].model = "Transaction" THEN LinesOf(r[2]) ELSE r[2].items

\* C25: every monetary field of every rendered payload (item prices, net item
\* total, tax, payment amounts, change, refund total), for each payload shape,
\* has exactly 2 decimals and is the round-half-up of the transaction's value.
C25_TwoDecimalsHalfUp ==
    \A r \in Rendered :
        LET o == r[1].order
        IN /\ WholeCents(o.total) /\ WholeCents(r[1].refund_total)
           /\ \A i \in 1..Len(o.tax) : WholeCents(o.tax[i].amount)
           /\ Len(o.items) = Len(SourceLines(r))
           /\ \A i \in 1..Len(o.items) :
                 Abs(o.items[i].price) = Abs(HalfUp(SourceLines(r)[i].price))
           /\ \A i \in 1..Len(o.payments) :
                 /\ WholeCents(o.payments[i].amount) /\ WholeCents(o.payments[i].change)
                 /\ Paying(r[2]) # <<>> =>
                       \E j \in 1..Len(r[2].payments) :
                           o.payments[i].amount = HalfUp(r[2].payments[j].amount)

(* ================== rendering as a function of the transaction ========= *)
\* C26: rendering is a pure function of the transaction: the same transaction
\* rendered twice, at any two times and with any state of the token cache and the
\* queues, gives payloads equal in every field, timestamps, business date and
\* order number included.
C26_RenderingIsPure ==
    \A r1, r2 \in Rendered : r1[2] = r2[2] => r1[1] = r2[1]

(* ========================= the meta of a buffer ======================== *)
\* the fields of meta record b merged into the meta a: a field b carries wins
MergeMeta(a, b) ==
    [f \in DOMAIN NoMeta |->
        IF f = "timeStamp"
        THEN (IF b[f].kind = "empty" THEN a[f] ELSE b[f])
        ELSE (IF b[f] = Absent THEN a[f] ELSE b[f])]

\* the meta records of a cycle merged in order
RECURSIVE MergedMeta(_)
MergedMeta(recs) ==
    IF recs = <<>> THEN NoMeta
    ELSE LET front == MergedMeta(SubSeq(recs, 1, Len(recs) - 1))
             last  == recs[Len(recs)]
         IN IF ActsAs(last) = "meta" THEN MergeMeta(front, last.metaData[1]) ELSE front

\* C27, in every state: the meta of an open buffer holds the fields of all the
\* meta records of its cycle, the later value winning for a field present in
\* two, and the buffer's operation tag is the last non-empty tag a meta record
\* carried, else the tag of the cycle-start.
C27_MetaHoldsAll ==
    \A p \in SERIAL_PORTS :
        (buffers[p] # None /\ Indices(cyc[p].recs, "meta") # {}) =>
            /\ buffers[p][1].meta = Some(MergedMeta(cyc[p].recs))
            /\ buffers[p][1].operation =
                  IF MergedMeta(cyc[p].recs).operation \in {Absent, ""}
                  THEN NewBuffer(cyc[p].start).operation
                  ELSE MergedMeta(cyc[p].recs).operation

\* C27, in every step: a meta record emits no transaction
C27_MetaStep ==
    (parser_queue # <<>> /\ parser_queue' = Tail(parser_queue) /\ nread' = nread
        /\ buffers[Head(parser_queue)[1]] # None /\ ActsAs(Head(parser_queue)[2]) = "meta")
    => (Stream' = Stream /\ pending' = pending /\ ppc' = ppc)

\* C27: a meta record on an open buffer merges its fields into the buffer's meta:
\* after two meta records in one cycle the meta holds the fields of both, a
\* non-empty operation tag in a meta record is recorded on the buffer, and no
\* transaction is emitted.
C27_MetaMerged == []C27_MetaHoldsAll /\ [][C27_MetaStep]_vars

(* ======================= the payments of a buffer ====================== *)
\* the record at the head of the queue is a payment-summary for an open buffer
PaymentAtHead ==
    /\ parser_queue # <<>> /\ ppc = "get"
    /\ buffers[Head(parser_queue)[1]] # None
    /\ ActsAs(Head(parser_queue)[2]) = "payment"

\* C28, in every step: a payment-summary record applied to an open buffer leaves
\* in it the payments of that record and no other, so the record applied to a
\* buffer that holds its payments already changes nothing in the list.
C28_PaymentStep ==
    (PaymentAtHead /\ parser_queue' = Tail(parser_queue) /\ nread' = nread) =>
        LET p   == Head(parser_queue)[1]
            rec == Head(parser_queue)[2]
        IN /\ buffers'[p] # None
           /\ buffers'[p][1].payments = PaymentEntries(rec.paymentSummary.v)
           /\ buffers[p][1].payments = PaymentEntries(rec.paymentSummary.v)
                 => buffers'[p][1].payments = buffers[p][1].payments

\* C28, in every state: an open buffer that has received payment-summary records
\* holds the payments of the latest one only
C28_LatestOnly ==
    \A p \in SERIAL_PORTS :
        (buffers[p] # None /\ Indices(cyc[p].recs, "payment") # {}) =>
            buffers[p][1].payments = AnnouncedPayments(cyc[p].recs)

\* C28: a payment-summary record replaces the buffer's payment list instead of
\* appending to it: the same record delivered twice in one cycle leaves the
\* payments as delivering it once does, and after any payment-summary the list
\* holds only the payments of the latest one.
C28_PaymentsReplaced == []C28_LatestOnly /\ [][C28_PaymentStep]_vars

\* the same payment-summary record has been applied twice in a row to an open
\* buffer, which holds its one payment once
C28_Witness ==
    \E p \in SERIAL_PORTS :
        /\ buffers[p] # None
        /\ Len(cyc[p].recs) >= 2
        /\ ActsAs(cyc[p].recs[Len(cyc[p].recs)]) = "payment"
        /\ cyc[p].recs[Len(cyc[p].recs)] = cyc[p].recs[Len(cyc[p].recs) - 1]
        /\ Len(buffers[p][1].payments) = 1

(* ==================== the channel readers, step by step ================ *)

\* what ser.read(length) can return on a port: the text of one of the terminal's
\* records, or a text json.loads rejects
Bodies(p) ==
    {[valid |-> TRUE, rec |-> m[2]] : m \in {x \in profile : x[1] = p}}
        \cup {[valid |-> FALSE, rec |-> NoRec]}

\* the failures of the two channels so far
Failures == readers["COM3"].fails + readers["COM4"].fails

\* except Exception: print, then time.sleep(5) begins; the body in hand is lost
Raise(p) ==
    /\ Failures < MaxFails
    /\ readers' = [readers EXCEPT ![p].pc = "sleeping", ![p].body = None,
                                  ![p].wake = now + 5, ![p].fails = @ + 1]

\* ser = serial.Serial(...): returns an open channel or raises
ReaderOpen(p) ==
    /\ readers[p].pc = "open"
    /\ \/ readers' = [readers EXCEPT ![p].pc = "listen", ![p].ser = "open"]
       \/ Raise(p)
    /\ UNCHANGED <<profile, nread, nticks, now, asmvars, tx_queue, dispvars>>

ReaderRead_SkipsLog(p) ==
    /\ readers[p].pc = "listen"
    /\ \/ /\ nread < MaxRecords
          /\ \E b \in Bodies(p) :
                readers' = [readers EXCEPT ![p].pc = "parse", ![p].body = Some(b)]
          /\ nread' = nread + 1
       \/ /\ Raise(p)
          /\ nread' = nread
    /\ UNCHANGED <<profile, nticks, now, asmvars, tx_queue, dispvars>>

\* ser.readline() and ser.read(length): a header and its body arrive, or the read raises
ReaderRead(p) ==
    /\ readers[p].pc = "listen"
    /\ \/ /\ nread < MaxRecords
          /\ \E b \in Bodies(p) :
                readers' = [readers EXCEPT ![p].pc = "log", ![p].body = Some(b)]
          /\ nread' = nread + 1
       \/ /\ Raise(p)
          /\ nread' = nread
    /\ UNCHANGED <<profile, nticks, now, asmvars, tx_queue, dispvars>>

\* log_raw_json(port, txt): the line is appended, or opening or writing the file raises
ReaderLog(p) ==
    /\ readers[p].pc = "log"
    /\ \/ readers' = [readers EXCEPT ![p].pc = "parse",
                                     ![p].log = Append(@, readers[p].body[1])]
       \/ Raise(p)
    /\ UNCHANGED <<profile, nread, nticks, now, asmvars, tx_queue, dispvars>>

\* json.loads(txt) raises JSONDecodeError: print and continue
ReaderInvalid(p) ==
    /\ readers[p].pc = "parse"
    /\ ~readers[p].body[1].valid
    /\ readers' = [readers EXCEPT ![p].pc = "listen", ![p].body = None]
    /\ UNCHANGED <<profile, nread, nticks, now, asmvars, tx_queue, dispvars>>

\* json.loads(txt) returns rec: parser_queue.put((port, rec))
ReaderPut(p) ==
    /\ readers[p].pc = "parse"
    /\ readers[p].body[1].valid
    /\ Len(parser_queue) < MaxQueue
    /\ parser_queue' = Append(parser_queue, <<p, readers[p].body[1].rec>>)
    /\ readers' = [readers EXCEPT ![p].pc = "listen", ![p].body = None,
                                  ![p].forwarded = Append(@, readers[p].body[1].rec)]
    /\ UNCHANGED <<profile, nread, nticks, now, buffers, ppc, pending, events, cyc,
                   tx_queue, dispvars>>

ReaderWake_Early(p) ==
    /\ readers[p].pc = "sleeping"
    /\ now' = now
    /\ readers' = [readers EXCEPT ![p].pc = "finally"]
    /\ UNCHANGED <<profile, nread, nticks, asmvars, tx_queue, dispvars>>

\* time.sleep(5) returns: five seconds or more have passed since it began
ReaderWake(p) ==
    /\ readers[p].pc = "sleeping"
    /\ now' = IF now < readers[p].wake THEN readers[p].wake ELSE now
    /\ readers' = [readers EXCEPT ![p].pc = "finally"]
    /\ UNCHANGED <<profile, nread, nticks, asmvars, tx_queue, dispvars>>

\* finally: ser.close(), a NameError swallowed while ser was never bound; then the
\* outer while True starts over
ReaderFinally(p) ==
    /\ readers[p].pc = "finally"
    /\ readers' = [readers EXCEPT ![p].pc = "open", ![p].wake = 0,
                                  ![p].ser = IF @ = "unbound" THEN "unbound" ELSE "closed"]
    /\ UNCHANGED <<profile, nread, nticks, now, asmvars, tx_queue, dispvars>>

\* two terminals: sales on COM3, summaries of no open transaction on COM4
ReaderInit ==
    /\ profile = On("COM3", {RecStart, RecSummary}) \cup On("COM4", {RecSummary})
    /\ nread = 0
    /\ nticks = 0
    /\ now = Now0
    /\ parser_queue = <<>>
    /\ buffers = [p \in SERIAL_PORTS |-> None]
    /\ ppc = "get"
    /\ pending = NoPending
    /\ events = EmptyMap
    /\ tx_queue = <<>>
    /\ cyc = [p \in SERIAL_PORTS |-> NoCycle]
    /\ dpc = "get"
    /\ taken = <<>>
    /\ token_data = [access_token |-> 0, expires_at |-> 0]
    /\ ntoken = 0
    /\ posts = <<>>
    /\ audit = <<>>
    /\ archive = {}
    /\ dthreads = [d \in DispatcherThreads |-> IdleThread]
    /\ readers = [p \in SERIAL_PORTS |-> IdleReader]

ReaderNext ==
    \/ \E p \in SERIAL_PORTS : ReaderOpen(p)
    \/ \E p \in SERIAL_PORTS : ReaderRead(p)
    \/ \E p \in SERIAL_PORTS : ReaderLog(p)
    \/ \E p \in SERIAL_PORTS : ReaderInvalid(p)
    \/ \E p \in SERIAL_PORTS : ReaderPut(p)
    \/ \E p \in SERIAL_PORTS : ReaderWake(p)
    \/ \E p \in SERIAL_PORTS : ReaderFinally(p)
    \/ ParserStartTransaction
    \/ ParserDrop
    \/ ParserSummary
    \/ ParserPut
    \/ DispatchTokenFails
    \/ DispatchPostRaises
    \/ DispatchPostReturns

\* the program with each read_from_port thread followed step by step
ReaderSpec == ReaderInit /\ [][ReaderNext]_vars

(* ====================== properties of the readers ====================== *)

\* the records among the bodies of a raw log, in order
ValidRecs(log) ==
    LET v == SelectSeq(log, LAMBDA b : b.valid)
    IN  [i \in 1..Len(v) |-> v[i].rec]

\* the lines of the raw log of p whose bodies the reader has finished with
Handled(p) ==
    IF readers[p].pc = "parse"
    THEN SubSeq(readers[p].log, 1, Len(readers[p].log) - 1)
    ELSE readers[p].log

\* the body in hand is the last line of the raw log before it is parsed; what a
\* reader has forwarded is exactly the records among the lines it has finished with;
\* every record waiting in parser_queue is a line of its channel's raw log
C29_LoggedEarlier ==
    /\ \A p \in SERIAL_PORTS :
          /\ readers[p].pc = "parse" =>
                /\ readers[p].log # <<>>
                /\ readers[p].log[Len(readers[p].log)] = readers[p].body[1]
          /\ readers[p].forwarded = ValidRecs(Handled(p))
    /\ \A i \in 1..Len(parser_queue) :
          \E j \in 1..Len(readers[parser_queue[i][1]].log) :
              readers[parser_queue[i][1]].log[j] =
                  [valid |-> TRUE, rec |-> parser_queue[i][2]]

\* the step a reader takes with a logged body that json.loads rejects: nothing is
\* forwarded, the raw log keeps its lines, the channel stays open and the reader
\* listens for the next header
C29_InvalidStep ==
    \A p \in SERIAL_PORTS :
        (/\ readers[p].pc = "parse"
         /\ ~readers[p].body[1].valid
         /\ readers'[p] # readers[p])
        => /\ readers'[p].pc = "listen"
           /\ readers'[p].ser = "open"
           /\ readers'[p].log = readers[p].log
           /\ readers'[p].forwarded = readers[p].forwarded
           /\ readers'[p].fails = readers[p].fails
           /\ parser_queue' = parser_queue

\* C29: every body read is appended to its channel's raw log before anything else is
\* done with it; a body that is not valid JSON is logged and dropped, without being
\* forwarded and without the reader leaving its read loop or closing the channel;
\* every record forwarded to the assembler has its raw log line written earlier
C29_RawLogFirst == []C29_LoggedEarlier /\ [][C29_InvalidStep]_vars

\* a channel that was never closed has logged an invalid body, dropped it, and then
\* logged and forwarded a record
C29_Witness ==
    \E p \in SERIAL_PORTS :
        /\ readers[p].fails = 0
        /\ readers[p].pc = "listen"
        /\ Len(readers[p].log) = 2
        /\ ~readers[p].log[1].valid
        /\ readers[p].log[2].valid
        /\ readers[p].forwarded = <<readers[p].log[2].rec>>

\* a reader between a failure and the next serial.Serial(...)
Recovering(p) == readers[p].pc \in {"sleeping", "finally", "open"}

\* the original reading of C30: the channel is closed first and the reader waits
\* afterwards, so no reader waits out its backoff holding an open channel
C30_ClosedBeforeWaiting ==
    \A p \in SERIAL_PORTS : readers[p].pc = "sleeping" => readers[p].ser # "open"

\* where a reader stands against its channel: the backoff has elapsed before the
\* channel is closed, the channel is closed before it is opened again and open while
\* the reader listens; a recovering reader always has its next step, and a recovering
\* reader leaves every step of the other reader, of parser_worker and of
\* dispatcher_worker as possible as it was
C30_Recovery ==
    \A p \in SERIAL_PORTS :
        /\ readers[p].pc = "sleeping" => ENABLED ReaderWake(p)
        /\ readers[p].pc = "finally" =>
              /\ now >= readers[p].wake
              /\ readers[p].wake > 0
              /\ ENABLED ReaderFinally(p)
        /\ readers[p].pc = "open" =>
              /\ readers[p].ser # "open"
              /\ ENABLED ReaderOpen(p)
        /\ readers[p].pc \in {"listen", "log", "parse"} => readers[p].ser = "open"
        /\ Recovering(p) =>
              /\ \A q \in SERIAL_PORTS \ {p} :
                    /\ readers[q].pc = "log" => ENABLED ReaderLog(q)
                    /\ (readers[q].pc = "listen" /\ nread < MaxRecords)
                          => ENABLED ReaderRead(q)
                    /\ (readers[q].pc = "parse" /\ Len(parser_queue) < MaxQueue)
                          => ENABLED (ReaderInvalid(q) \/ ReaderPut(q))
              /\ (ppc = "get" /\ parser_queue # <<>>) => ENABLED ParserStep
              /\ ppc = "put" => ENABLED ParserPut
              /\ (dpc = "get" /\ tx_queue # <<>>) => ENABLED DispatchStep

\* the steps of a reader: a failure begins a wait of five seconds with the channel as
\* it was, the wait ends five seconds later or more with the channel as it was, then
\* the channel is closed and the reader starts over; no step of a reader touches the
\* other reader, the buffers, the queue of transactions or the two workers
C30_ReaderStep ==
    \A p \in SERIAL_PORTS :
        readers'[p] # readers[p] =>
            /\ readers'[p].fails > readers[p].fails =>
                  /\ readers'[p].pc = "sleeping"
                  /\ readers'[p].wake = now + 5
                  /\ readers'[p].ser = readers[p].ser
            /\ readers[p].pc = "sleeping" =>
                  /\ readers'[p].pc = "finally"
                  /\ now' >= readers[p].wake
                  /\ readers'[p].ser = readers[p].ser
            /\ readers[p].pc = "finally" =>
                  /\ readers'[p].pc = "open"
                  /\ readers'[p].ser # "open"
            /\ \A q \in SERIAL_PORTS \ {p} : readers'[q] = readers[q]
            /\ UNCHANGED <<buffers, ppc, pending, events, tx_queue, dispvars>>

\* C30, as the code has it: after any failure of a channel its reader waits the fixed
\* backoff, then closes the channel, then opens it again, however many times failures
\* occur; a failing channel never stops the other reader, the assembler or the
\* dispatcher
C30_WaitCloseReopen == []C30_Recovery /\ [][C30_ReaderStep]_vars

\* a channel has failed twice while it was open and is open again, and meanwhile a
\* sale of the other channel has been assembled and posted
C30_Witness ==
    \E p \in SERIAL_PORTS :
        /\ readers[p].fails = 2
        /\ readers[p].pc = "listen"
        /\ readers[p].ser = "open"
        /\ readers[p].log # <<>>
        /\ \E q \in SERIAL_PORTS \ {p} : Len(readers[q].forwarded) >= 2
        /\ posts # <<>>

(* ===================== the branches of the assembler =================== *)
\* the record at the head of the queue is about to be applied, as kind, to an open
\* buffer
AtHead(kind) ==
    /\ ParserReady
    /\ buffers[HeadPort] # None
    /\ ActsAs(HeadRec) = kind

\* the step takes the record at the head of the queue
TakesHead == parser_queue' = Tail(parser_queue) /\ nread' = nread

\* the buffer entry of a cart-change entry whose numbers are present and well formed
\* or absent
EntryOf(c) ==
    [name     |-> Get(c.itemName, ""),
     price    |-> IF c.price.kind = "num" THEN c.price.v ELSE 0,
     quantity |-> IF c.quantity.kind = "num" THEN c.quantity.v ELSE 1,
     event    |-> IF c.eventType = "voidLineItem" THEN "void" ELSE "add"]

\* C31, in every step that applies a cart-change record to an open buffer: every
\* entry of the record, one object counting as a list of one, is appended in order
\* to the voids if its event type is voidLineItem and to the items otherwise, with
\* price 0 when the price is absent and quantity 1 when the quantity is absent, after
\* the entries the buffer held
C31_CartStep ==
    (AtHead("cart") /\ TakesHead) =>
        LET old   == buffers[HeadPort][1]
            trail == HeadRec.cartChangeTrail.v
            new   == buffers'[HeadPort][1]
        IN /\ buffers'[HeadPort] # None
           /\ Len(new.items) + Len(new.voids)
                  = Len(old.items) + Len(old.voids) + Len(trail)
           /\ SubSeq(new.items, 1, Len(old.items)) = old.items
           /\ SubSeq(new.voids, 1, Len(old.voids)) = old.voids
           /\ (\A i \in 1..Len(trail) : ~CartRaises(trail[i])) =>
                 /\ new.items = old.items
                        \o SelectEvent([i \in 1..Len(trail) |-> EntryOf(trail[i])], "add")
                 /\ new.voids = old.voids
                        \o SelectEvent([i \in 1..Len(trail) |-> EntryOf(trail[i])], "void")

\* C31: a cart-change record is normalized to a list and each entry is appended, in
\* order, to the buffer's voids if its event type is the line-void type and to the
\* buffer's items otherwise, with price 0 when the price is absent and quantity 1
\* when the quantity is absent; entries already in the buffer are kept
C31_CartEntriesAppended == [][C31_CartStep]_vars

\* the number a summary line stands for: its details without the currency marker and
\* the thousands separators, 0 when what is left is not a number
LineValue(e) == IF e.details.ok THEN e.details.v ELSE 0

\* C32: the summary map of a transaction emitted by a cycle close is built from the
\* first transaction-summary of its cycle: its keys are the descriptions of the
\* entries, uppercased and trimmed; each key is mapped to the number parsed from
\* the details of the last entry that has it, and to 0 when that cannot be parsed
C32_SummaryMapOfFirstSummary ==
    \A p \in SERIAL_PORTS :
        \A n \in 1..Len(CycleTxs(p)) :
            LET smap == CycleTxs(p)[n].summary_map
                summ == ClosingSummary(cyc[p].recs).transactionSummary.v
            IN /\ DOMAIN smap = {UpperStrip(Get(summ[i].description, "")) : i \in 1..Len(summ)}
               /\ \A i \in 1..Len(summ) :
                     (\A j \in (i+1)..Len(summ) :
                          UpperStrip(Get(summ[j].description, ""))
                              # UpperStrip(Get(summ[i].description, "")))
                     => smap[UpperStrip(Get(summ[i].description, ""))] = LineValue(summ[i])

\* a cycle has emitted a transaction from a summary with two entries of one key, the
\* later one with a thousands separator, and an entry whose details are no number
C32_Witness ==
    \E p \in SERIAL_PORTS :
        /\ cyc[p].out # <<>>
        /\ LET summ == ClosingSummary(cyc[p].recs).transactionSummary.v
               smap == CycleTxs(p)[1].summary_map
           IN /\ Len(summ) = 3
              /\ Cardinality(DOMAIN smap) = 2
              /\ summ[1].details.v = 500
              /\ smap["TAX 6%"] = 1000000
              /\ smap["SUBTOTAL"] = 0

(* ==================== properties of the refund payload ================= *)
\* the transactions classified refund that dispatcher_worker has taken and rendered
RefundsRendered == {t \in Range(taken) : t.type = "refund" /\ ~BuildRaises(t)}

\* C33: for every refund transaction the rendered payload has model
\* RefundTransaction and a Closed order whose lines are exactly the transaction's
\* items, no void among them, whose item total is the signed sum of price times
\* quantity over the items, whose payments are the transaction's payments without
\* the zero amounts, and whose refund total is the sum of all payment amounts
C33_RefundPayload ==
    \A t \in RefundsRendered :
        LET pl   == BuildPayload(t, now)
            paid == SelectSeq(t.payments, LAMBDA p : p.amount # 0)
        IN /\ ~pl.none
           /\ pl.model = "RefundTransaction"
           /\ pl.order.state = "Closed"
           /\ Len(pl.order.items) = Len(t.items)
           /\ \A i \in 1..Len(t.items) :
                 /\ pl.order.items[i].name = t.items[i].name
                 /\ pl.order.items[i].price = Quantize(t.items[i].price)
                 /\ pl.order.items[i].quantity = t.items[i].quantity
           /\ pl.order.total =
                 Quantize(SumOf([i \in 1..Len(t.items) |->
                                    t.items[i].price * t.items[i].quantity]))
           /\ Len(pl.order.payments) = Len(paid)
           /\ \A i \in 1..Len(paid) : pl.order.payments[i].amount = paid[i].amount
           /\ pl.refund_total = SumOf([i \in 1..Len(t.payments) |-> t.payments[i].amount])

(* ================== the payments a record contributes ================== *)
\* the entries of a payment-summary whose details start with the currency marker
Dollars(pays) == SelectSeq(pays, LAMBDA e : e.details.dollar)

\* the entries of a payment-summary that were stored as payments: those with the
\* currency marker, up to the first one whose amount is no number
Accepted(pays) ==
    LET d == Dollars(pays)
    IN SelectSeq([i \in 1..Len(d) |-> [e |-> d[i], i |-> i]],
                 LAMBDA x : \A j \in 1..x.i : d[j].details.ok /\ ~d[j].details.comma)

\* C34, in every step that applies a payment-summary record: the payments of the
\* buffer are entries of the record whose details start with the currency marker, in
\* order, each with the amount and the tender description of its entry, and all of
\* them when every amount is a number
C34_PaymentStep ==
    (AtHead("payment") /\ TakesHead) =>
        LET pays == HeadRec.paymentSummary.v
            new  == buffers'[HeadPort][1].payments
        IN /\ buffers'[HeadPort] # None
           /\ Len(new) <= Len(Dollars(pays))
           /\ \A i \in 1..Len(new) :
                 /\ new[i].amount = Dollars(pays)[i].details.v
                 /\ new[i].tenderType = Get(Dollars(pays)[i].description, "")
           /\ Len(Accepted(pays)) = Len(Dollars(pays)) => Len(new) = Len(Dollars(pays))

\* C34, in every state: the awaiting-change flag of an open buffer is set if and only
\* if a payment accepted since the cycle-start has a tender description that is cash,
\* whatever its case
C34_FlagIffCash ==
    \A p \in SERIAL_PORTS :
        buffers[p] # None =>
            (buffers[p][1].awaiting_cash_change
                <=> \E n \in Indices(cyc[p].recs, "payment") :
                        \E k \in 1..Len(Accepted(cyc[p].recs[n].paymentSummary.v)) :
                            Upper(Get(Accepted(cyc[p].recs[n].paymentSummary.v)[k].e.description,
                                      "")) = "CASH")

\* C34: from a payment-summary record only the entries whose details start with the
\* currency marker become payments, each with its amount and tender description; the
\* awaiting-change flag of the buffer is set if and only if at least one accepted
\* payment of the cycle has a tender description equal to cash ignoring case
C34_PaymentsAndFlag == []C34_FlagIffCash /\ [][C34_PaymentStep]_vars

\* a payment-summary with a cash entry and an entry without the currency marker has
\* been applied: the buffer holds the one payment and awaits change
C34_Witness ==
    \E p \in SERIAL_PORTS :
        /\ buffers[p] # None
        /\ buffers[p][1].awaiting_cash_change
        /\ Len(buffers[p][1].payments) = 1
        /\ buffers[p][1].payments[1].tenderType = "Cash"
        /\ cyc[p].recs # <<>>
        /\ ActsAs(cyc[p].recs[Len(cyc[p].recs)]) = "payment"
        /\ Len(cyc[p].recs[Len(cyc[p].recs)].paymentSummary.v) = 2

(* ======================= the close of a cycle ========================== *)
\* the transactions emitted so far, queued or about to be
Emitted == Range(Stream) \cup (IF ppc = "put" THEN {pending.tx[1]} ELSE {})

\* C35, in every state: an open buffer holds no summary list and no summary map
\* unless the transaction of its cycle is built and about to be queued; a cycle has
\* emitted one transaction at most; no emitted transaction has a payment with a
\* change amount
C35_OneSummaryPerCycle ==
    /\ \A p \in SERIAL_PORTS :
          /\ (buffers[p] # None /\ ~Closing(p)) =>
                /\ buffers[p][1].summary_list = <<>>
                /\ buffers[p][1].summary_map = EmptyMap
          /\ Len(CycleTxs(p)) <= 1
    /\ \A t \in Emitted : \A i \in 1..Len(t.payments) : t.payments[i].change = NoNum

\* C35, in every step: a transaction-summary record applied to an open buffer builds
\* the transaction of the cycle, and queueing that transaction resets the buffer
C35_CloseStep ==
    /\ (AtHead("summary") /\ TakesHead) =>
          /\ ppc' = "put"
          /\ pending'.close
          /\ pending'.port = HeadPort
    /\ \A p \in SERIAL_PORTS :
          (Closing(p) /\ ppc' # ppc) =>
              /\ buffers'[p] = None
              /\ tx_queue' = Append(tx_queue, pending.tx[1])

NegativeItem(t) == \E i \in 1..Len(t.items) : t.items[i].price < 0

\* C36: no emitted transaction classified standard-sale has an item with a negative
\* price: a negative item price makes the transaction a refund or a cash-operation,
\* so a transaction that dispatcher_worker hands to build_txn_payload has negative
\* prices on void lines only
C36_NoNegativeItemInSale ==
    \A t \in Emitted :
        /\ NegativeItem(t) => t.type \in {"refund", "cash-operation"}
        /\ t.type = "standard-sale" => \A i \in 1..Len(t.items) : t.items[i].price >= 0
        /\ Route(t) = "txn" => ~NegativeItem(t)

\* a cycle without operation tag and without refund type has closed with a negative
\* item price, and its transaction is a refund
C36_Witness ==
    \E t \in Emitted :
        /\ NegativeItem(t)
        /\ t.operation = ""
        /\ t.type = "refund"
        /\ Route(t) = "refund"

(* ========================= the cycle-end command ======================= *)
\* C37, in every step that takes an EndTransaction record: no buffer changes, no
\* transaction is built, saved or queued
C37_EndStep ==
    (ParserReady /\ HeadRec.CMD = "EndTransaction" /\ TakesHead) =>
        /\ buffers' = buffers
        /\ tx_queue' = tx_queue
        /\ pending' = pending
        /\ events' = events
        /\ ppc' = ppc

\* C37, in every state: a cycle that has received no transaction-summary record has
\* produced no transaction, and its buffer is open
C37_OpenUntilSummary ==
    \A p \in SERIAL_PORTS :
        (cyc[p].started /\ Indices(cyc[p].recs, "summary") = {}) =>
            /\ CycleTxs(p) = <<>>
            /\ buffers[p] # None
            /\ buffers[p][1].summary_list = <<>>

\* C37: an EndTransaction record never emits a transaction and leaves every buffer
\* unchanged: a cycle that receives no transaction-summary record never produces a
\* transaction, and its buffer stays open until the next cycle-start replaces it
C37_EndChangesNothing == []C37_OpenUntilSummary /\ [][C37_EndStep]_vars

\* a cycle that holds a payment has received its EndTransaction record: the buffer
\* is open as it was and nothing has been emitted
C37_Witness ==
    \E p \in SERIAL_PORTS :
        /\ ppc = "get"
        /\ buffers[p] # None
        /\ buffers[p][1].payments # <<>>
        /\ cyc[p].recs # <<>>
        /\ cyc[p].recs[Len(cyc[p].recs)].CMD = "EndTransaction"
        /\ Stream = <<>>

(* =================== records that carry several keys =================== *)
\* the keys of a record that parser_worker looks for
HasMeta(rec)    == rec.metaData # None /\ rec.metaData[1] # NoMeta
HasCart(rec)    == rec.cartChangeTrail.kind # "none"
HasPayment(rec) == rec.paymentSummary.kind # "none"
HasSummary(rec) == rec.transactionSummary.kind # "none"

\* nothing is built, saved or queued in the step
NothingEmitted ==
    /\ ppc' = ppc \/ ppc' = "dead"
    /\ pending' = pending
    /\ events' = events
    /\ tx_queue' = tx_queue

\* C38, in every step that takes a record: one transition is applied, the first that
\* matches in the order cash command, cycle-start, meta, cart-change,
\* payment-summary, transaction-summary, and the other keys of the record leave no
\* trace: a cash command touches no buffer, a cycle-start opens an empty buffer, a
\* record with a meta changes neither items, voids nor payments and closes nothing,
\* a record with a cart-change and no meta changes neither meta nor payments and
\* closes nothing, a record with a payment-summary and neither of those changes
\* neither meta, items nor voids and closes nothing
C38_FirstMatchStep ==
    (ParserReady /\ TakesHead) =>
        LET p   == HeadPort
            rec == HeadRec
            old == buffers[p]
            new == buffers'[p]
        IN /\ \A q \in SERIAL_PORTS \ {p} : buffers'[q] = buffers[q]
           /\ IF rec.CMD \in CashCommands
                 THEN new = old /\ ppc' = "put" /\ ~pending'.close
              ELSE IF rec.CMD = "StartTransaction"
                 THEN /\ NothingEmitted
                      /\ new = Some(NewBuffer([NoRec EXCEPT !.operation = rec.operation]))
              ELSE IF old = None
                 THEN NothingEmitted /\ new = None
              ELSE IF HasMeta(rec)
                 THEN /\ NothingEmitted
                      /\ new # None
                      /\ new[1].meta = rec.metaData
                      /\ new[1] = [old[1] EXCEPT !.meta = new[1].meta,
                                                 !.operation = new[1].operation]
              ELSE IF HasCart(rec)
                 THEN /\ NothingEmitted
                      /\ new # None
                      /\ new[1] = [old[1] EXCEPT !.items = new[1].items,
                                                 !.voids = new[1].voids]
              ELSE IF HasPayment(rec)
                 THEN /\ NothingEmitted
                      /\ new # None
                      /\ new[1] = [old[1] EXCEPT
                                      !.payments = new[1].payments,
                                      !.awaiting_cash_change = new[1].awaiting_cash_change]
              ELSE IF HasSummary(rec)
                 THEN /\ ppc' = "put" /\ pending'.close
                      /\ pending'.tx[1].items = old[1].items
                      /\ pending'.tx[1].voids = old[1].voids
                      /\ pending'.tx[1].payments = old[1].payments
              ELSE NothingEmitted /\ new = old

\* C38, in every state: a cycle whose records all carry a meta, a cart-change or a
\* payment-summary has emitted nothing, whatever transaction-summary they carry too
C38_NeverClosedByOtherKeys ==
    \A p \in SERIAL_PORTS :
        (cyc[p].started
            /\ \A i \in 1..Len(cyc[p].recs) :
                   \/ HasMeta(cyc[p].recs[i])
                   \/ HasCart(cyc[p].recs[i])
                   \/ HasPayment(cyc[p].recs[i]))
        => (CycleTxs(p) = <<>> /\ buffers[p] # None)

\* C38: each record triggers at most one assembler transition, the first that matches
\* in the order cash command, cycle-start, meta, cart-change, payment-summary,
\* transaction-summary: of a record that carries several recognized keys only the
\* first is applied and the others are ignored, so such a record with a meta never
\* closes the cycle
C38_FirstMatchOnly == []C38_NeverClosedByOtherKeys /\ [][C38_FirstMatchStep]_vars

\* a record with a meta, a cart-change, a payment-summary and a transaction-summary
\* has been applied to an open buffer: the buffer has the meta, no item, no payment,
\* and nothing has been emitted
C38_Witness ==
    \E p \in SERIAL_PORTS :
        /\ ppc = "get"
        /\ buffers[p] # None
        /\ Len(cyc[p].recs) = 1
        /\ HasMeta(cyc[p].recs[1]) /\ HasCart(cyc[p].recs[1])
        /\ HasPayment(cyc[p].recs[1]) /\ HasSummary(cyc[p].recs[1])
        /\ buffers[p][1].meta = cyc[p].recs[1].metaData
        /\ buffers[p][1].items = <<>>
        /\ buffers[p][1].payments = <<>>
        /\ Stream = <<>>

(* ==================== a failed client-credentials request ============== *)
\* the last dispatch recorded so far ended in a failed client-credentials request
LastTokenFailed == audit # <<>> /\ audit[Len(audit)].snippet = Snippet(TokenError)

\* C39, in every step: a dispatch whose client-credentials request fails leaves the
\* token cache as it was, issues no POST, and records its transaction in the failed
\* archive with status 0; the dispatch after it makes a client-credentials request
C39_TokenFailureStep ==
    /\ (Len(taken') > Len(taken) /\ Len(audit') > Len(audit)
            /\ audit'[Len(audit')].snippet = Snippet(TokenError)) =>
          /\ ntoken' = ntoken + 1
          /\ token_data' = token_data
          /\ posts' = posts
          /\ audit'[Len(audit')].status = 0
          /\ audit'[Len(audit')].dest = "failed"
          /\ audit'[Len(audit')].key = FileKey(Head(tx_queue))
          /\ \E f \in archive' : f.dest = "failed" /\ f.key = FileKey(Head(tx_queue))
    /\ (LastTokenFailed /\ TokenCall) => ntoken' = ntoken + 1

\* C39: when the client-credentials request fails, the token cache is left unchanged,
\* no POST to a data endpoint is issued for that transaction, and the transaction is
\* recorded in the failed archive with status 0; the next dispatch attempt makes a
\* new client-credentials request
C39_TokenFailure == [][C39_TokenFailureStep]_vars

\* the second of three dispatches found token 1 with 60 seconds left and its request
\* failed: token 1 stayed in the cache, and the third dispatch requested token 3
C39_Witness ==
    /\ Len(audit) = 3
    /\ audit[1].snippet # Snippet(TokenError)
    /\ audit[2].snippet = Snippet(TokenError)
    /\ audit[2].status = 0
    /\ audit[3].snippet # Snippet(TokenError)
    /\ ntoken = 3
    /\ token_data.access_token = 3

====
